---- MODULE Spec2Model ----
(***************************************************************************)
(* AutiConnect bot: the dispatcher with its four conversation handlers     *)
(* (registration, profile update, group creation, activity creation), the  *)
(* stand-alone command and button handlers, and the moderation engine      *)
(* (group throttle, private support sessions, alerts), over the document   *)
(* store.  One action per handler; every update is handled to completion   *)
(* before the next one (the dispatcher runs handlers synchronously).       *)
(*                                                                         *)
(* Texts are tuples of one-character strings.  A button payload is the     *)
(* tuple query.data.split('_') of its callback data, with a numeric id     *)
(* kept as a number: 'join_10' is <<"join", 10>>, 'autista' <<"autista">>. *)
(* The clock counts minutes; int(time.time()) and datetime.now() both read *)
(* it, so two updates between two ticks read the same clock value.         *)
(***************************************************************************)
EXTENDS Integers, Sequences, FiniteSets, TLC

(***************************************************************************)
(* Bounds of the exploration.  A run handles a bounded number of updates   *)
(* from one of the scopes defined with the initial states below.           *)
(***************************************************************************)
MaxFacilitatorEvents == 6   \* updates of the scope "facilitator"
MaxRegistrationEvents == 11 \* updates of the scope "registration"
MaxMemberEvents == 5        \* updates of the scope "members"
MaxModerationEvents == 2    \* updates of the scope "moderation"
MaxValidationEvents == 5    \* updates of the scopes "age" and "capacity"
MaxTwoChatEvents == 7       \* updates of the scope "twochats"
MaxCreationEvents == 10     \* updates of the scope "creations"
MaxTicks == 6               \* minutes the clock may advance past T0
T0 == 10                    \* clock value at process start

Users == {1, 2, 3}          \* Telegram user ids; the private chat of u has id u
GroupChats == {T0 - 2, T0 - 1, T0}  \* the Telegram group chats the bot sits in
Chats == Users \cup GroupChats

\* conversation states, src/main.py:35-38
NAME == 0
ROLE == 1
GROUP_NAME == 2
GROUP_THEME == 3
GROUP_DESC == 4
GROUP_MAX == 5
ACTIVITY_TYPE == 6
ACTIVITY_TITLE == 7
ACTIVITY_DESC == 8
ACTIVITY_DURATION == 9
PROFILE_AGE == 10
PROFILE_GENDER == 11
PROFILE_CONTACTS == 12
PROFILE_ACADEMIC == 13
PROFILE_PROFESSIONALS == 14
PROFILE_INTERESTS == 15
PROFILE_TRIGGERS == 16
PROFILE_COMMUNICATION == 17
END == 0 - 1        \* ConversationHandler.END

COOLDOWN_MINUTES == 5
AGE_MIN == 5
AGE_MAX == 100
GROUP_MAX_MIN == 2
GROUP_MAX_MAX == 50

(***************************************************************************)
(* Texts.                                                                  *)
(***************************************************************************)
T_oi == <<"o", "i">>
T_2 == <<"2">>
T_7 == <<"7">>
\* around the limits of the age and of the group size
T_1 == <<"1">>
T_4 == <<"4">>
T_5 == <<"5">>
T_50 == <<"5", "0">>
T_51 == <<"5", "1">>
T_100 == <<"1", "0", "0">>
T_101 == <<"1", "0", "1">>
T_socorro == <<"S", "o", "c", "o", "r", "r", "o", "!">>
T_crise == <<"c", "r", "i", "s", "e">>
T_medo == <<"m", "e", "d", "o">>
\* capitals, an accented capital, and a text one letter short of a term
T_SUICIDIO == <<"S", "U", "I", "C", "Í", "D", "I", "O", "?">>
T_cris == <<"c", "r", "i", "s", "?">>
T_empty == <<>>

R_ola == <<"o", "l", "á">>
R_CRISE == <<"C", "R", "I", "S", "E">>
\* a completion whose JSON content is null
R_None == <<"None">>

\* what users type (never empty: Filters.text needs a text)
Texts == {T_oi, T_2, T_7, T_socorro, T_crise, T_medo,
          T_1, T_4, T_5, T_50, T_51, T_100, T_101, T_SUICIDIO, T_cris}
(***************************************************************************)
(* The fixed replies of the failure paths.                                  *)
(***************************************************************************)
\* src/llm_integration.py:271
MSG_NO_API_KEY ==
    <<"E", "r", "r", "o", ":", " ", "A", "P", "I", "_", "K", "E", "Y", " ",
      "n", "ã", "o", " ", "c", "o", "n", "f", "i", "g", "u", "r", "a", "d",
      "a", ".", " ", "P", "o", "r", " ", "f", "a", "v", "o", "r", ",", " ",
      "c", "o", "n", "f", "i", "g", "u", "r", "e", " ", "a", " ", "v", "a",
      "r", "i", "á", "v", "e", "l", " ", "d", "e", " ", "a", "m", "b", "i",
      "e", "n", "t", "e", " ", "L", "L", "M", "_", "A", "P", "I", "_", "K",
      "E", "Y", ".">>
\* src/llm_integration.py:299
MSG_API_ERROR ==
    <<"D", "e", "s", "c", "u", "l", "p", "e", ",", " ", "e", "s", "t", "o",
      "u", " ", "t", "e", "n", "d", "o", " ", "d", "i", "f", "i", "c", "u",
      "l", "d", "a", "d", "e", "s", " ", "t", "é", "c", "n", "i", "c", "a",
      "s", " ", "n", "o", " ", "m", "o", "m", "e", "n", "t", "o", ".">>
\* src/llm_integration.py:303
MSG_CALL_ERROR ==
    <<"D", "e", "s", "c", "u", "l", "p", "e", ",", " ", "o", "c", "o", "r",
      "r", "e", "u", " ", "u", "m", " ", "e", "r", "r", "o", " ", "a", "o",
      " ", "p", "r", "o", "c", "e", "s", "s", "a", "r", " ", "s", "u", "a",
      " ", "s", "o", "l", "i", "c", "i", "t", "a", "ç", "ã", "o", ".">>
\* src/llm_integration.py:151
MSG_GROUP_ERROR ==
    <<"D", "e", "s", "c", "u", "l", "p", "e", ",", " ", "e", "s", "t", "o",
      "u", " ", "t", "e", "n", "d", "o", " ", "d", "i", "f", "i", "c", "u",
      "l", "d", "a", "d", "e", "s", " ", "p", "a", "r", "a", " ", "p", "r",
      "o", "c", "e", "s", "s", "a", "r", " ", "a", " ", "c", "o", "n", "v",
      "e", "r", "s", "a", " ", "n", "e", "s", "t", "e", " ", "m", "o", "m",
      "e", "n", "t", "o", ".">>
\* src/llm_integration.py:241
MSG_PRIVATE_ERROR ==
    <<"D", "e", "s", "c", "u", "l", "p", "e", ",", " ", "e", "s", "t", "o",
      "u", " ", "t", "e", "n", "d", "o", " ", "d", "i", "f", "i", "c", "u",
      "l", "d", "a", "d", "e", "s", " ", "p", "a", "r", "a", " ", "p", "r",
      "o", "c", "e", "s", "s", "a", "r", " ", "s", "u", "a", " ", "m", "e",
      "n", "s", "a", "g", "e", "m", " ", "n", "e", "s", "t", "e", " ", "m",
      "o", "m", "e", "n", "t", "o", ".">>
Digits == <<"0", "1", "2", "3", "4", "5", "6", "7", "8", "9">>
IsDigit(ch) == \E i \in 1..10 : Digits[i] = ch
DigitVal(ch) == (CHOOSE i \in 1..10 : Digits[i] = ch) - 1

RECURSIVE DigitsValue(_)
DigitsValue(s) ==
    IF s = <<>> THEN 0
    ELSE 10 * DigitsValue(SubSeq(s, 1, Len(s) - 1)) + DigitVal(s[Len(s)])

RECURSIVE Strip(_)
Strip(s) ==
    IF s = <<>> THEN s
    ELSE IF s[1] = " " THEN Strip(Tail(s))
    ELSE IF s[Len(s)] = " " THEN Strip(SubSeq(s, 1, Len(s) - 1))
    ELSE s

\* int(text) succeeds: optional blanks, optional sign, then decimal digits
IntBody(s) == IF s # <<>> /\ s[1] \in {"+", "-"} THEN Tail(s) ELSE s
IsInt(t) ==
    LET b == IntBody(Strip(t))
    IN  b # <<>> /\ \A i \in 1..Len(b) : IsDigit(b[i])
\* int(text), where IsInt(text)
IntOf(t) ==
    LET s == Strip(t)
        v == DigitsValue(IntBody(s))
    IN  IF s[1] = "-" THEN 0 - v ELSE v

\* the letters of Portuguese with their lower-case forms
UpperCase == <<"A", "B", "C", "D", "E", "F", "G", "H", "I", "J", "K", "L", "M",
               "N", "O", "P", "Q", "R", "S", "T", "U", "V", "W", "X", "Y", "Z",
               "Á", "À", "Â", "Ã", "É", "Ê", "Í", "Ó", "Ô", "Õ", "Ú", "Ç">>
LowerCase == <<"a", "b", "c", "d", "e", "f", "g", "h", "i", "j", "k", "l", "m",
               "n", "o", "p", "q", "r", "s", "t", "u", "v", "w", "x", "y", "z",
               "á", "à", "â", "ã", "é", "ê", "í", "ó", "ô", "õ", "ú", "ç">>
LowerChar(ch) ==
    IF \E i \in 1..Len(UpperCase) : UpperCase[i] = ch
    THEN LowerCase[CHOOSE i \in 1..Len(UpperCase) : UpperCase[i] = ch]
    ELSE ch
\* str.lower()
Lower(t) == [i \in 1..Len(t) |-> LowerChar(t[i])]

\* the Python test: kw in t
Contains(t, kw) ==
    \E i \in 0..(Len(t) - Len(kw)) : SubSeq(t, i + 1, i + Len(kw)) = kw

\* src/llm_integration.py:317-321
alert_keywords == {
    <<"s", "u", "i", "c", "í", "d", "i", "o">>,
    <<"s", "u", "i", "c", "i", "d", "a">>,
    <<"m", "a", "t", "a", "r">>,
    <<"m", "o", "r", "r", "e", "r">>,
    <<"m", "a", "c", "h", "u", "c", "a", "r">>,
    <<"d", "e", "s", "e", "s", "p", "e", "r", "o">>,
    <<"d", "e", "s", "e", "s", "p", "e", "r", "a", "d", "o">>,
    <<"d", "e", "s", "e", "s", "p", "e", "r", "a", "d", "a">>,
    <<"e", "m", "e", "r", "g", "ê", "n", "c", "i", "a">>,
    <<"c", "r", "i", "s", "e">>,
    <<"p", "â", "n", "i", "c", "o">>,
    <<"v", "i", "o", "l", "ê", "n", "c", "i", "a">>,
    <<"a", "b", "u", "s", "o">>,
    <<"s", "o", "c", "o", "r", "r", "o">> }

\* what LLMIntegration._call_llm_api can return: a completion (possibly empty
\* or null), or one of its three fixed failure texts
CallOutcomes ==
    {R_ola, T_crise, T_empty, R_None, MSG_NO_API_KEY, MSG_API_ERROR, MSG_CALL_ERROR}
\* the Oracle accepts the connection and never answers: requests.post is
\* called without a timeout (lines 288-292) and does not return
R_never == <<"never">>
OracleOutcomes == CallOutcomes \cup {R_never}

\* an alert policy that compares the text as it is written
analyze_for_alert_case_sensitive(text) ==
    \E kw \in alert_keywords : Contains(text, kw)

\* LLMIntegration._analyze_for_alert(text, context_messages); the context
\* messages are not read
analyze_for_alert(text) ==
    \E kw \in alert_keywords : Contains(Lower(text), kw)
\* its value on the texts of the model, computed once
AlertTexts == {t \in Texts \cup CallOutcomes \cup {R_CRISE} : analyze_for_alert(t)}

\* src/ai_mediation.py:172-176
support_keywords == {
    <<"a", "j", "u", "d", "a">>,
    <<"a", "n", "s", "i", "o", "s", "o">>,
    <<"a", "n", "s", "i", "o", "s", "a">>,
    <<"n", "e", "r", "v", "o", "s", "o">>,
    <<"n", "e", "r", "v", "o", "s", "a">>,
    <<"t", "r", "i", "s", "t", "e">>,
    <<"c", "o", "n", "f", "u", "s", "o">>,
    <<"c", "o", "n", "f", "u", "s", "a">>,
    <<"d", "i", "f", "í", "c", "i", "l">>,
    <<"n", "ã", "o", " ", "c", "o", "n", "s", "i", "g", "o">>,
    <<"p", "r", "o", "b", "l", "e", "m", "a">>,
    <<"a", "s", "s", "u", "s", "t", "a", "d", "o">>,
    <<"a", "s", "s", "u", "s", "t", "a", "d", "a">>,
    <<"m", "e", "d", "o">>,
    <<"s", "o", "z", "i", "n", "h", "o">>,
    <<"s", "o", "z", "i", "n", "h", "a">> }

needs_support(message_text) ==
    \/ \E kw \in support_keywords : Contains(Lower(message_text), kw)
    \/ \E i \in 1..Len(message_text) : message_text[i] \in {"?", "!"}

\* its value on the texts of the model, computed once
SupportTexts == {t \in Texts : needs_support(t)}

\* text.startswith('/')
StartsWithSlash(text) == text # <<>> /\ text[1] = "/"
(***************************************************************************)
(* State.                                                                  *)
(***************************************************************************)
VARIABLES
    scope,                      \* the scope of the run, fixed at the start
    now,                        \* the clock, in minutes
    users,                      \* db.users: user_id -> document
    groups,                     \* db.groups: group_id -> document
    activities,                 \* db.activities
    messages,                   \* db.messages: the number of stored messages
    interactions,               \* db.interactions: the number of audit records
    conversations,              \* per ConversationHandler: (chat, user) -> state
    user_data,                  \* context.user_data of each user
    group_message_timestamps,   \* src/main.py:42
    private_chat_sessions,      \* src/main.py:43
    keyboards,                  \* buttons the bot has shown: <<chat, payload>>
    last,                       \* the update handled last: what was stored,
                                \* audited and sent while handling it
    events,                     \* updates handled so far
    reply_times,                \* per group chat: times of its last two AI replies
    in_call                     \* the dispatcher is inside the Oracle request

vars == <<scope, now, users, groups, activities, messages, interactions,
          conversations, user_data, group_message_timestamps,
          private_chat_sessions, keyboards, last, events, reply_times,
          in_call>>

store == <<users, groups, activities, messages, interactions>>
moderation == <<group_message_timestamps, private_chat_sessions, reply_times>>

ConvHandlers == <<"registration", "profile_update", "group_creation",
                  "activity_creation">>
ConvNames == {ConvHandlers[i] : i \in 1..Len(ConvHandlers)}
Keys == Chats \X Users

EmptyMap == [k \in {} |-> 0]
Put(d, k, v) == [y \in DOMAIN d \cup {k} |-> IF y = k THEN v ELSE d[y]]
\* $addToSet on a list field
AddToSet(list, v) ==
    IF \E i \in 1..Len(list) : list[i] = v THEN list ELSE Append(list, v)
SeqToSet(list) == {list[i] : i \in 1..Len(list)}

ROLE_AUTISTA == <<"autista">>
ROLE_AT == <<"at">>

\* the keyboards the handlers attach to their prompts
RoleKeyboard == {<<"autista">>, <<"at">>}
GenderKeyboard == {<<"masculino">>, <<"feminino">>, <<"nao-binario">>,
                   <<"nao-informado">>}
CommunicationKeyboard == {<<"direta">>, <<"detalhada">>}
UpdateKeyboard == {<<"update", "interests">>, <<"update", "triggers">>,
                   <<"update", "communication">>, <<"update", "contacts">>}
TypeKeyboard == {<<"type", "discussao">>, <<"type", "projeto">>,
                 <<"type", "jogo">>, <<"type", "compartilhamento">>}
Show(chat, payloads) == keyboards \cup {<<chat, p>> : p \in payloads}

(***************************************************************************)
(* The document store (src/db.py).  Every operation succeeds.              *)
(***************************************************************************)
DefaultSettings ==
    [intervention_frequency |-> "medium", activity_suggestions |-> TRUE,
     conflict_mediation |-> TRUE, support_private_chats |-> TRUE]

DefaultProfile ==
    [age |-> <<>>, gender |-> <<>>, emergency_contacts |-> <<>>,
     academic_history |-> <<>>, professionals |-> <<>>, interests |-> <<>>,
     anxiety_triggers |-> <<>>, style |-> <<"direct">>]

\* Database.create_user: upsert with $set of the base fields, and of a fresh
\* profile when the role is 'autista'; other fields of an existing document stay
create_user(us, user_id, name, role) ==
    LET base == [name |-> name, role |-> role, groups |-> <<>>]
        doc == IF role = ROLE_AUTISTA
               THEN Put(base, "profile", DefaultProfile)
               ELSE IF user_id \in DOMAIN us /\ "profile" \in DOMAIN us[user_id]
                    THEN Put(base, "profile", us[user_id].profile)
                    ELSE base
    IN  Put(us, user_id, doc)

\* Database.update_user_profile: $set of profile.<key>, no upsert
update_user_profile(us, user_id, profile_data) ==
    IF user_id \notin DOMAIN us THEN us
    ELSE Put(us, user_id, Put(us[user_id], "profile", profile_data))

\* a group document that starts without members
create_group_doc_without_members(gs, group_id, name, theme, description, created_by, max_members) ==
    Put(gs, group_id,
        [name |-> name, theme |-> theme, description |-> description,
         created_by |-> created_by, members |-> <<>>,
         max_members |-> max_members, ai_mediator_enabled |-> TRUE,
         ai_mediator_settings |-> DefaultSettings])

\* Database.create_group, the group document: upsert with $set of every field
create_group_doc(gs, group_id, name, theme, description, created_by, max_members) ==
    Put(gs, group_id,
        [name |-> name, theme |-> theme, description |-> description,
         created_by |-> created_by, members |-> <<created_by>>,
         max_members |-> max_members, ai_mediator_enabled |-> TRUE,
         ai_mediator_settings |-> DefaultSettings])

\* $addToSet of a group id on a user's groups, no upsert
add_group_to_user(us, user_id, group_id) ==
    IF user_id \notin DOMAIN us THEN us
    ELSE Put(us, user_id,
             [us[user_id] EXCEPT !.groups = AddToSet(@, group_id)])

\* Database.add_user_to_group, the group side: $addToSet on members, no upsert
add_member(gs, user_id, group_id) ==
    IF group_id \notin DOMAIN gs THEN gs
    ELSE Put(gs, group_id,
             [gs[group_id] EXCEPT !.members = AddToSet(@, user_id)])

\* Database.update_group_ai_settings: $set of ai_mediator_settings, no upsert
update_group_ai_settings(gs, group_id, ai_settings) ==
    IF group_id \notin DOMAIN gs THEN gs
    ELSE Put(gs, group_id,
             [gs[group_id] EXCEPT !.ai_mediator_settings = ai_settings])

\* Database.store_message: the document appended; group_id 0 stands for None
store_message(user_id, group_id, text) ==
    [user_id |-> user_id, group_id |-> group_id, text |-> text]

\* Database.store_ai_interaction: the document appended
store_ai_interaction(type, response, alert_needed) ==
    [type |-> type, response |-> response, alert_needed |-> alert_needed]

(***************************************************************************)
(* The dispatcher (src/main.py:284-357): the handlers are tried in the     *)
(* order they were added and the first that accepts the update handles it. *)
(* A ConversationHandler keyed by (chat, user) accepts an update when      *)
(* there is no conversation and an entry point matches, or when a handler  *)
(* of the current state matches, or else a fallback.                       *)
(***************************************************************************)
EntryCommand ==
    [registration |-> "start", profile_update |-> "perfil",
     group_creation |-> "criar_grupo", activity_creation |-> "iniciar_atividade"]
EntryPoint ==
    [registration |-> "start", profile_update |-> "update_profile_command",
     group_creation |-> "create_group_start",
     activity_creation |-> "start_activity_command"]

\* the handler the conversation handler h has for update (kind, x) in state s
StateHandler(h, s, kind, x) ==
    CASE h = "registration" ->
            IF kind = "text" THEN
                CASE s = NAME -> "process_name"
                  [] s = PROFILE_AGE -> "process_profile_age"
                  [] s = PROFILE_CONTACTS -> "process_profile_contacts"
                  [] s = PROFILE_ACADEMIC -> "process_profile_academic"
                  [] s = PROFILE_PROFESSIONALS -> "process_profile_professionals"
                  [] s = PROFILE_INTERESTS -> "process_profile_interests"
                  [] s = PROFILE_TRIGGERS -> "process_profile_triggers"
                  [] OTHER -> "none"
            ELSE IF kind = "button" THEN
                CASE s = ROLE -> "process_role"
                  [] s = PROFILE_GENDER -> "process_profile_gender"
                  [] s = PROFILE_COMMUNICATION -> "process_profile_communication"
                  [] OTHER -> "none"
            ELSE "none"
      [] h = "profile_update" ->
            IF kind = "button" /\ s = PROFILE_INTERESTS THEN "profile_menu"
            ELSE "none"
      [] h = "group_creation" ->
            IF kind = "text" THEN
                CASE s = GROUP_NAME -> "process_group_name"
                  [] s = GROUP_THEME -> "process_group_theme"
                  [] s = GROUP_DESC -> "process_group_desc"
                  [] s = GROUP_MAX -> "process_group_max"
                  [] OTHER -> "none"
            ELSE "none"
      [] h = "activity_creation" ->
            IF kind = "button" /\ s = ACTIVITY_TYPE /\ x[1] = "group" /\ Len(x) >= 2
                THEN "process_activity_group"
            ELSE IF kind = "button" /\ s = ACTIVITY_TITLE /\ x[1] = "type" /\ Len(x) >= 2
                THEN "process_activity_type"
            ELSE IF kind = "text" /\ s = ACTIVITY_DESC THEN "process_activity_title"
            ELSE IF kind = "text" /\ s = ACTIVITY_DURATION THEN "process_activity_desc"
            ELSE "none"

\* a conversation handler that lets its entry command restart an open session
ConvSelect_allow_reentry(h, kind, u, c, x) ==
    LET s == conversations[h][<<c, u>>]
    IN  IF kind = "command" /\ x = EntryCommand[h] THEN EntryPoint[h]
        ELSE IF s = END THEN "none"
        ELSE IF StateHandler(h, s, kind, x) # "none" THEN StateHandler(h, s, kind, x)
        ELSE IF kind = "command" /\ x = "cancel" THEN "cancel"
        ELSE "none"

\* ConversationHandler.check_update
ConvSelect(h, kind, u, c, x) ==
    LET s == conversations[h][<<c, u>>]
    IN  IF s = END
        THEN IF kind = "command" /\ x = EntryCommand[h] THEN EntryPoint[h]
             ELSE "none"
        ELSE IF StateHandler(h, s, kind, x) # "none" THEN StateHandler(h, s, kind, x)
        ELSE IF kind = "command" /\ x = "cancel" THEN "cancel"
        ELSE "none"

\* the handlers added after the conversation handlers, src/main.py:340-357
Standalone(kind, c, x) ==
    IF kind = "command" THEN
        CASE x = "grupos" -> "list_groups"
          [] x = "atividades" -> "list_activities"
          [] x = "ajuda" -> "help_command"
          [] OTHER -> "none"
    ELSE IF kind = "button" THEN
        IF x[1] = "join" /\ Len(x) >= 2 THEN "join_group_callback"
        ELSE IF Len(x) >= 3 /\ x[1] = "ai" /\ x[2] \in {"on", "off"}
            THEN "toggle_ai_mediator"
        ELSE IF Len(x) >= 4 /\ x[1] = "ai" /\ x[2] = "guide" /\ x[3] \in {"on", "off"}
            THEN "toggle_ai_guidance"
        ELSE "none"
    ELSE IF c \in GroupChats THEN "handle_group_message"
    ELSE "handle_private_message"

\* <<conversation handler or "dispatcher", callback>> that handles the update
Route(kind, u, c, x) ==
    LET hit == {i \in 1..Len(ConvHandlers) :
                    ConvSelect(ConvHandlers[i], kind, u, c, x) # "none"}
    IN  IF hit # {}
        THEN LET i == CHOOSE j \in hit : \A k \in hit : j <= k
             IN  <<ConvHandlers[i], ConvSelect(ConvHandlers[i], kind, u, c, x)>>
        ELSE <<"dispatcher", Standalone(kind, c, x)>>

\* ConversationHandler._update_state
SetState(h, u, c, s) == [conversations EXCEPT ![h][<<c, u>>] = s]
(***************************************************************************)
(* The Mediator Oracle and the two mediation calls (src/llm_integration.py)*)
(***************************************************************************)
\* Python truth value of a reply
Truthy(response) == response # T_empty /\ response # R_None

\* a mediation that asks for an alert with every answer
mediate_group_conversation_always_alert(r) ==
    IF r = R_None
    THEN [response |-> MSG_GROUP_ERROR, alert_needed |-> FALSE, audit |-> FALSE]
    ELSE [response |-> r, alert_needed |-> TRUE, audit |-> TRUE]

\* LLMIntegration.mediate_group_conversation, for an existing group and the
\* outcome r of the Oracle call: [response, alert_needed, audit]
mediate_group_conversation(r) ==
    IF r = R_None
    THEN \* _analyze_for_alert(None) raises; caught at line 149
         [response |-> MSG_GROUP_ERROR, alert_needed |-> FALSE, audit |-> FALSE]
    ELSE [response |-> r, alert_needed |-> r \in AlertTexts, audit |-> TRUE]

\* LLMIntegration.provide_individual_support, for a registered autistic user
provide_individual_support(message_text, r) ==
    [response |-> r, alert_needed |-> message_text \in AlertTexts,
     audit |-> TRUE]

\* a throttle that lets a reply through exactly 5 minutes after the last
should_ai_intervene_at_cooldown(group_id, timestamps, t) ==
    \/ group_id \notin DOMAIN timestamps
    \/ t - timestamps[group_id] >= COOLDOWN_MINUTES

\* a throttle that forgets the case of a group with no reply yet
should_ai_intervene_after_reply(group_id, timestamps, t) ==
    /\ group_id \in DOMAIN timestamps
    /\ t - timestamps[group_id] > COOLDOWN_MINUTES

\* should_ai_intervene(group_id, group_message_timestamps) at clock value t
should_ai_intervene(group_id, timestamps, t) ==
    \/ group_id \notin DOMAIN timestamps
    \/ t - timestamps[group_id] > COOLDOWN_MINUTES

\* handle_private_message, lines 120-138: the facilitators alerted, in order
RECURSIVE ats_notified(_, _, _)
ats_notified(gs, user_groups, notified) ==
    IF user_groups = <<>> THEN notified
    ELSE LET group_id == Head(user_groups)
             next == IF group_id \in DOMAIN gs
                        /\ gs[group_id].created_by \notin SeqToSet(notified)
                     THEN Append(notified, gs[group_id].created_by)
                     ELSE notified
         IN  ats_notified(gs, Tail(user_groups), next)

(***************************************************************************)
(* Initial states: the process starts with no conversation, empty          *)
(* user_data and empty throttle and session tables, over a store that      *)
(* earlier runs of the bot left behind: every record below is one the      *)
(* registration, group-creation and join handlers write, and the buttons   *)
(* are those of a creation prompt that was never answered.                 *)
(***************************************************************************)
AtDoc(name, gs) == [name |-> name, role |-> ROLE_AT, groups |-> gs]
AutistaDoc(name, gs) ==
    [name |-> name, role |-> ROLE_AUTISTA, groups |-> gs, profile |-> DefaultProfile]
GroupDoc(creator, members, max) ==
    [name |-> T_oi, theme |-> T_oi, description |-> T_oi, created_by |-> creator,
     members |-> members, max_members |-> max, ai_mediator_enabled |-> TRUE,
     ai_mediator_settings |-> DefaultSettings]

\* facilitator 1 with one group that has room, autistic member 2, stranger 3
SmallStore ==
    [users |-> (1 :> AtDoc(T_oi, <<T0 - 1>>)) @@ (2 :> AutistaDoc(T_oi, <<>>)),
     groups |-> (T0 - 1) :> GroupDoc(1, <<1>>, 2),
     keyboards |-> {<<1, <<"ai", "on", T0 - 1>>>>, <<1, <<"ai", "off", T0 - 1>>>>}]

\* facilitators 1 and 3; member 2 is in two groups of 1 and in one of 3
LargeStore ==
    [users |-> (1 :> AtDoc(T_oi, <<T0 - 3, T0 - 1>>))
               @@ (2 :> AutistaDoc(T_oi, <<T0 - 3, T0 - 2, T0 - 1>>))
               @@ (3 :> AtDoc(T_oi, <<T0 - 2>>)),
     groups |-> ((T0 - 3) :> GroupDoc(1, <<1, 2>>, 2))
                @@ ((T0 - 2) :> GroupDoc(3, <<3, 2>>, 2))
                @@ ((T0 - 1) :> GroupDoc(1, <<1, 2>>, 3)),
     keyboards |-> {<<1, <<"ai", "on", T0 - 1>>>>, <<1, <<"ai", "off", T0 - 1>>>>}]

Commands == {"start", "cancel", "criar_grupo", "iniciar_atividade", "perfil",
             "grupos", "atividades", "ajuda"}

\* who sends what where in a run, and how long it is
Scopes ==
    [facilitator |->
        [store |-> SmallStore, actors |-> {1}, chats |-> {1},
         commands |-> Commands, texts |-> {T_oi, T_2},
         outcomes |-> {R_ola},
         budget |-> MaxFacilitatorEvents, ticks |-> 0,
         faults |-> {0}],
     registration |->
        [store |-> SmallStore, actors |-> {3}, chats |-> {3},
         commands |-> {"start", "cancel"}, texts |-> {T_7},
         outcomes |-> {R_ola},
         budget |-> MaxRegistrationEvents, ticks |-> 0,
         faults |-> {0, 1}],
     members |->
        [store |-> SmallStore, actors |-> {2, 3}, chats |-> {2, 3},
         commands |-> {"start", "cancel", "perfil", "grupos", "criar_grupo",
                       "iniciar_atividade"},
         texts |-> {T_oi}, outcomes |-> {R_ola},
         budget |-> MaxMemberEvents, ticks |-> 0,
         faults |-> {0}],
     age |->
        [store |-> SmallStore, actors |-> {3}, chats |-> {3},
         commands |-> {"start"}, texts |-> {T_oi, T_4, T_5, T_100, T_101},
         outcomes |-> {R_ola},
         budget |-> MaxValidationEvents, ticks |-> 0,
         faults |-> {0}],
     capacity |->
        [store |-> SmallStore, actors |-> {1}, chats |-> {1},
         commands |-> {"criar_grupo"}, texts |-> {T_oi, T_1, T_2, T_50, T_51},
         outcomes |-> {R_ola},
         budget |-> MaxValidationEvents, ticks |-> 0,
         faults |-> {0, 1, 2}],
     twochats |->
        [store |-> SmallStore, actors |-> {3}, chats |-> {3, T0 - 1},
         commands |-> {"start", "perfil"}, texts |-> {T_socorro},
         outcomes |-> {R_ola},
         budget |-> MaxTwoChatEvents, ticks |-> 0,
         faults |-> {0}],
     creations |->
        [store |-> LargeStore, actors |-> {1, 3}, chats |-> {1, 3},
         commands |-> {"criar_grupo"}, texts |-> {T_2},
         outcomes |-> {R_ola},
         budget |-> MaxCreationEvents, ticks |-> 1,
         faults |-> {0}],
     twogroups |->
        [store |-> LargeStore, actors |-> {2}, chats |-> {T0 - 2, T0 - 1},
         commands |-> {}, texts |-> {T_oi},
         outcomes |-> {R_ola, T_crise, T_empty},
         budget |-> MaxModerationEvents, ticks |-> MaxTicks,
         faults |-> {0}],
     policy |->
        [store |-> LargeStore, actors |-> {2}, chats |-> {2, T0 - 1},
         commands |-> {}, texts |-> {T_oi, T_socorro, T_SUICIDIO, T_cris},
         outcomes |-> {R_ola, T_crise, R_CRISE},
         budget |-> MaxModerationEvents, ticks |-> 0,
         faults |-> {0}],
     moderation |->
        [store |-> LargeStore, actors |-> {1, 2}, chats |-> {1, 2, T0 - 1, T0},
         commands |-> {}, texts |-> {T_oi, T_socorro, T_medo},
         outcomes |-> OracleOutcomes,
         budget |-> MaxModerationEvents, ticks |-> MaxTicks,
         faults |-> {0}]]

NoEvent == [h |-> "none", f |-> "none", kind |-> "none", u |-> 0, c |-> 0,
            x |-> <<>>, stored |-> <<>>, audit |-> <<>>, sent |-> <<>>]

Init ==
    /\ scope \in DOMAIN Scopes
    /\ now = T0
    /\ users = Scopes[scope].store.users
    /\ groups = Scopes[scope].store.groups
    /\ keyboards = Scopes[scope].store.keyboards
    /\ activities = <<>>
    /\ messages = 0
    /\ interactions = 0
    /\ conversations = [h \in ConvNames |-> [k \in Keys |-> END]]
    /\ user_data = [u \in Users |-> EmptyMap]
    /\ group_message_timestamps = EmptyMap
    /\ private_chat_sessions = EmptyMap
    /\ last = NoEvent
    /\ events = 0
    /\ reply_times = [c \in GroupChats |-> <<>>]
    /\ in_call = FALSE

(***************************************************************************)
(* Updates.  A user writes in the private chat with the bot or in a group  *)
(* chat, and presses only buttons the bot has shown in that chat.          *)
(***************************************************************************)
CanSend(u, c) == c = u \/ c \in GroupChats

Msg(to, kind) == [to |-> to, kind |-> kind, text |-> <<>>]
AiMsg(to, kind, text) == [to |-> to, kind |-> kind, text |-> text]

InScope(kind, u, c, x) ==
    /\ events < Scopes[scope].budget
    /\ u \in Scopes[scope].actors
    /\ c \in Scopes[scope].chats
    /\ kind = "command" => x \in Scopes[scope].commands
    /\ kind = "text" => x \in Scopes[scope].texts

\* the update (kind, u, c, x) is taken by callback f of handler h; the
\* dispatcher handles one update at a time (src/main.py:363, no run_async)
Takes(h, f, kind, u, c, x) ==
    /\ ~in_call
    /\ InScope(kind, u, c, x)
    /\ CanSend(u, c)
    /\ kind = "button" => <<c, x>> \in keyboards
    /\ Route(kind, u, c, x) = <<h, f>>

\* what handling the update stored, audited and sent
Handled(h, f, kind, u, c, x, stored, audit, sent) ==
    /\ last' = [h |-> h, f |-> f, kind |-> kind, u |-> u, c |-> c, x |-> x,
                stored |-> stored, audit |-> audit, sent |-> sent]
    /\ events' = events + 1
    /\ scope' = scope
    /\ in_call' = FALSE
\* a handler that enters the Oracle request with the message not yet stored
Calling_before_store(h, f, kind, u, c, x, stored) ==
    /\ last' = [h |-> h, f |-> f, kind |-> kind, u |-> u, c |-> c, x |-> x,
                stored |-> <<>>, audit |-> <<>>, sent |-> <<>>]
    /\ events' = events + 1
    /\ scope' = scope
    /\ in_call' = TRUE
\* the handler stored the message and is inside the Oracle request
Calling(h, f, kind, u, c, x, stored) ==
    /\ last' = [h |-> h, f |-> f, kind |-> kind, u |-> u, c |-> c, x |-> x,
                stored |-> stored, audit |-> <<>>, sent |-> <<>>]
    /\ events' = events + 1
    /\ scope' = scope
    /\ in_call' = TRUE
Replied(h, f, kind, u, c, x, tag) ==
    Handled(h, f, kind, u, c, x, <<>>, <<>>, <<Msg(c, tag)>>)
Silent(h, f, kind, u, c, x) ==
    Handled(h, f, kind, u, c, x, <<>>, <<>>, <<>>)

\* the storage operation of a step that fails (0: none), of a step with n of them
Faults(n) == Scopes[scope].faults \cap 0..n

SetData(u, k, v) == [user_data EXCEPT ![u] = Put(@, k, v)]

\* [part.strip() for part in text.split(sep) if part.strip()]
RECURSIVE SplitOn(_, _)
SplitOn(t, sep) ==
    IF \A i \in 1..Len(t) : t[i] # sep THEN <<t>>
    ELSE LET i == CHOOSE j \in 1..Len(t) :
                      t[j] = sep /\ \A k \in 1..(j - 1) : t[k] # sep
         IN  <<SubSeq(t, 1, i - 1)>> \o SplitOn(SubSeq(t, i + 1, Len(t)), sep)
StripAll(parts) == [i \in 1..Len(parts) |-> Strip(parts[i])]
SplitList(t, sep) == SelectSeq(StripAll(SplitOn(t, sep)), LAMBDA p : p # <<>>)

Tick ==
    /\ now < T0 + Scopes[scope].ticks
    /\ now' = now + 1
    /\ UNCHANGED <<scope, store, conversations, user_data, moderation, keyboards,
                   last, events, in_call>>

\* no handler accepts the update
Unhandled(kind, u, c, x) ==
    /\ Takes("dispatcher", "none", kind, u, c, x)
    /\ Silent("dispatcher", "none", kind, u, c, x)
    /\ UNCHANGED <<now, store, conversations, user_data, moderation, keyboards>>

(***************************************************************************)
(* Registration (src/main.py:45-150, src/user_profile.py:9-246).           *)
(***************************************************************************)
\* a start command that begins the registration for every caller
start_for_everyone(u, c) ==
    /\ Takes("registration", "start", "command", u, c, "start")
    /\ conversations' = SetState("registration", u, c, NAME)
    /\ Replied("registration", "start", "command", u, c, "start", "ask_name")
    /\ UNCHANGED <<now, store, user_data, moderation, keyboards>>

start(u, c) ==
    /\ Takes("registration", "start", "command", u, c, "start")
    /\ \E failing \in Faults(1) :
          IF failing # 0
          THEN /\ conversations' = conversations
               /\ Replied("registration", "start", "command", u, c, "start", "error_apology")
          ELSE IF u \in DOMAIN users
          THEN /\ conversations' = SetState("registration", u, c, END)
               /\ Replied("registration", "start", "command", u, c, "start", "welcome_back")
          ELSE /\ conversations' = SetState("registration", u, c, NAME)
               /\ Replied("registration", "start", "command", u, c, "start", "ask_name")
    /\ UNCHANGED <<now, store, user_data, moderation, keyboards>>

process_name(u, c, t) ==
    /\ Takes("registration", "process_name", "text", u, c, t)
    /\ user_data' = SetData(u, "name", t)
    /\ keyboards' = Show(c, RoleKeyboard)
    /\ conversations' = SetState("registration", u, c, ROLE)
    /\ Replied("registration", "process_name", "text", u, c, t, "ask_role")
    /\ UNCHANGED <<now, store, moderation>>

process_role(u, c, p) ==
    /\ Takes("registration", "process_role", "button", u, c, p)
    /\ \E failing \in Faults(1) :
          IF failing # 0
          THEN /\ users' = users
               /\ conversations' = SetState("registration", u, c, END)
               /\ Replied("registration", "process_role", "button", u, c, p, "user_error")
          ELSE /\ users' = create_user(users, u, user_data[u]["name"], p)
               /\ IF p = ROLE_AUTISTA
                  THEN /\ conversations' = SetState("registration", u, c, PROFILE_AGE)
                       /\ Replied("registration", "process_role", "button", u, c, p, "ask_age")
                  ELSE /\ conversations' = SetState("registration", u, c, END)
                       /\ Replied("registration", "process_role", "button", u, c, p, "at_created")
    /\ UNCHANGED <<now, groups, activities, messages, interactions, user_data,
                   moderation, keyboards>>

\* an age test that turns the two limits away as well
process_profile_age_open_range(u, c, t) ==
    /\ Takes("registration", "process_profile_age", "text", u, c, t)
    /\ IF ~IsInt(t)
       THEN /\ Replied("registration", "process_profile_age", "text", u, c, t, "age_not_a_number")
            /\ conversations' = SetState("registration", u, c, PROFILE_AGE)
            /\ UNCHANGED <<user_data, keyboards>>
       ELSE IF IntOf(t) <= AGE_MIN \/ IntOf(t) >= AGE_MAX
       THEN /\ Replied("registration", "process_profile_age", "text", u, c, t, "age_out_of_range")
            /\ conversations' = SetState("registration", u, c, PROFILE_AGE)
            /\ UNCHANGED <<user_data, keyboards>>
       ELSE /\ user_data' = SetData(u, "profile_age", IntOf(t))
            /\ keyboards' = Show(c, GenderKeyboard)
            /\ conversations' = SetState("registration", u, c, PROFILE_GENDER)
            /\ Replied("registration", "process_profile_age", "text", u, c, t, "ask_gender")
    /\ UNCHANGED <<now, store, moderation>>

process_profile_age(u, c, t) ==
    /\ Takes("registration", "process_profile_age", "text", u, c, t)
    /\ IF ~IsInt(t)
       THEN /\ Replied("registration", "process_profile_age", "text", u, c, t, "age_not_a_number")
            /\ conversations' = SetState("registration", u, c, PROFILE_AGE)
            /\ UNCHANGED <<user_data, keyboards>>
       ELSE IF IntOf(t) < AGE_MIN \/ IntOf(t) > AGE_MAX
       THEN /\ Replied("registration", "process_profile_age", "text", u, c, t, "age_out_of_range")
            /\ conversations' = SetState("registration", u, c, PROFILE_AGE)
            /\ UNCHANGED <<user_data, keyboards>>
       ELSE /\ user_data' = SetData(u, "profile_age", IntOf(t))
            /\ keyboards' = Show(c, GenderKeyboard)
            /\ conversations' = SetState("registration", u, c, PROFILE_GENDER)
            /\ Replied("registration", "process_profile_age", "text", u, c, t, "ask_gender")
    /\ UNCHANGED <<now, store, moderation>>

process_profile_gender(u, c, p) ==
    /\ Takes("registration", "process_profile_gender", "button", u, c, p)
    /\ user_data' = SetData(u, "profile_gender", p)
    /\ conversations' = SetState("registration", u, c, PROFILE_CONTACTS)
    /\ Replied("registration", "process_profile_gender", "button", u, c, p, "ask_contacts")
    /\ UNCHANGED <<now, store, moderation, keyboards>>

\* a contacts step that passes over the academic history
process_profile_contacts_skipping_academic(u, c, t) ==
    /\ Takes("registration", "process_profile_contacts", "text", u, c, t)
    /\ user_data' = SetData(u, "profile_contacts", SplitList(t, "\n"))
    /\ conversations' = SetState("registration", u, c, PROFILE_PROFESSIONALS)
    /\ Replied("registration", "process_profile_contacts", "text", u, c, t, "ask_professionals")
    /\ UNCHANGED <<now, store, moderation, keyboards>>

process_profile_contacts(u, c, t) ==
    /\ Takes("registration", "process_profile_contacts", "text", u, c, t)
    /\ user_data' = SetData(u, "profile_contacts", SplitList(t, "\n"))
    /\ conversations' = SetState("registration", u, c, PROFILE_ACADEMIC)
    /\ Replied("registration", "process_profile_contacts", "text", u, c, t, "ask_academic")
    /\ UNCHANGED <<now, store, moderation, keyboards>>

process_profile_academic(u, c, t) ==
    /\ Takes("registration", "process_profile_academic", "text", u, c, t)
    /\ user_data' = SetData(u, "profile_academic", t)
    /\ conversations' = SetState("registration", u, c, PROFILE_PROFESSIONALS)
    /\ Replied("registration", "process_profile_academic", "text", u, c, t, "ask_professionals")
    /\ UNCHANGED <<now, store, moderation, keyboards>>

process_profile_professionals(u, c, t) ==
    /\ Takes("registration", "process_profile_professionals", "text", u, c, t)
    /\ user_data' = SetData(u, "profile_professionals", SplitList(t, "\n"))
    /\ conversations' = SetState("registration", u, c, PROFILE_INTERESTS)
    /\ Replied("registration", "process_profile_professionals", "text", u, c, t, "ask_interests")
    /\ UNCHANGED <<now, store, moderation, keyboards>>

process_profile_interests(u, c, t) ==
    /\ Takes("registration", "process_profile_interests", "text", u, c, t)
    /\ user_data' = SetData(u, "profile_interests", SplitList(t, ","))
    /\ conversations' = SetState("registration", u, c, PROFILE_TRIGGERS)
    /\ Replied("registration", "process_profile_interests", "text", u, c, t, "ask_triggers")
    /\ UNCHANGED <<now, store, moderation, keyboards>>

process_profile_triggers(u, c, t) ==
    /\ Takes("registration", "process_profile_triggers", "text", u, c, t)
    /\ user_data' = SetData(u, "profile_triggers", SplitList(t, ","))
    /\ keyboards' = Show(c, CommunicationKeyboard)
    /\ conversations' = SetState("registration", u, c, PROFILE_COMMUNICATION)
    /\ Replied("registration", "process_profile_triggers", "text", u, c, t, "ask_communication")
    /\ UNCHANGED <<now, store, moderation>>

\* context.user_data.get(key, default)
Get(d, k, default) == IF k \in DOMAIN d THEN d[k] ELSE default

process_profile_communication(u, c, p) ==
    /\ Takes("registration", "process_profile_communication", "button", u, c, p)
    /\ user_data' = SetData(u, "profile_communication", p)
    /\ LET d == user_data'[u]
           profile_data ==
               [age |-> IF "profile_age" \in DOMAIN d THEN <<d["profile_age"]>>
                        ELSE <<>>,
                gender |-> Get(d, "profile_gender", <<>>),
                emergency_contacts |-> Get(d, "profile_contacts", <<>>),
                academic_history |-> Get(d, "profile_academic", <<>>),
                professionals |-> Get(d, "profile_professionals", <<>>),
                interests |-> Get(d, "profile_interests", <<>>),
                anxiety_triggers |-> Get(d, "profile_triggers", <<>>),
                style |-> d["profile_communication"]]
       IN  \E failing \in Faults(1) :
             IF failing # 0
             THEN /\ users' = users
                  /\ Replied("registration", "process_profile_communication", "button",
                             u, c, p, "profile_error")
             ELSE /\ users' = update_user_profile(users, u, profile_data)
                  /\ Replied("registration", "process_profile_communication", "button",
                             u, c, p, "profile_complete")
    /\ conversations' = SetState("registration", u, c, END)
    /\ UNCHANGED <<now, groups, activities, messages, interactions, moderation,
                   keyboards>>

\* the fallback of all four conversation handlers
cancel(h, u, c) ==
    /\ Takes(h, "cancel", "command", u, c, "cancel")
    /\ conversations' = SetState(h, u, c, END)
    /\ Replied(h, "cancel", "command", u, c, "cancel", "cancelled")
    /\ UNCHANGED <<now, store, user_data, moderation, keyboards>>
(***************************************************************************)
(* Profile update (src/user_profile.py:248-289, src/main.py:302-309).      *)
(***************************************************************************)
update_profile_command(u, c) ==
    /\ Takes("profile_update", "update_profile_command", "command", u, c, "perfil")
    /\ IF u \notin DOMAIN users
       THEN /\ conversations' = SetState("profile_update", u, c, END)
            /\ Replied("profile_update", "update_profile_command", "command", u, c,
                       "perfil", "register_first")
            /\ UNCHANGED keyboards
       ELSE IF users[u].role = ROLE_AUTISTA
       THEN /\ conversations' = SetState("profile_update", u, c, PROFILE_INTERESTS)
            /\ keyboards' = Show(c, UpdateKeyboard)
            /\ Replied("profile_update", "update_profile_command", "command", u, c,
                       "perfil", "ask_section")
       ELSE /\ conversations' = SetState("profile_update", u, c, END)
            /\ Replied("profile_update", "update_profile_command", "command", u, c,
                       "perfil", "nothing_to_update")
            /\ UNCHANGED keyboards
    /\ UNCHANGED <<now, store, user_data, moderation>>

\* lambda u, c: PROFILE_INTERESTS
profile_menu(u, c, p) ==
    /\ Takes("profile_update", "profile_menu", "button", u, c, p)
    /\ conversations' = SetState("profile_update", u, c, PROFILE_INTERESTS)
    /\ Silent("profile_update", "profile_menu", "button", u, c, p)
    /\ UNCHANGED <<now, store, user_data, moderation, keyboards>>

(***************************************************************************)
(* Groups (src/group_management.py).                                       *)
(***************************************************************************)
list_groups(u, c) ==
    /\ Takes("dispatcher", "list_groups", "command", u, c, "grupos")
    /\ LET open == {g \in DOMAIN groups :
                        Len(groups[g].members) < groups[g].max_members}
       IN  /\ keyboards' = Show(c, {<<"join", g>> : g \in open})
           /\ Replied("dispatcher", "list_groups", "command", u, c, "grupos",
                      IF groups = EmptyMap THEN "no_groups" ELSE "group_list")
    /\ UNCHANGED <<now, store, conversations, user_data, moderation>>

join_group_callback(u, c, p) ==
    /\ Takes("dispatcher", "join_group_callback", "button", u, c, p)
    /\ LET group_id == p[2]
       IN  /\ groups' = add_member(groups, u, group_id)
           /\ users' = add_group_to_user(users, u, group_id)
    /\ Replied("dispatcher", "join_group_callback", "button", u, c, p, "joined")
    /\ UNCHANGED <<now, activities, messages, interactions, conversations, user_data,
                   moderation, keyboards>>

\* an entry to group creation that asks for registration only
create_group_start_any_role(u, c) ==
    /\ Takes("group_creation", "create_group_start", "command", u, c, "criar_grupo")
    /\ IF u \notin DOMAIN users
       THEN /\ conversations' = SetState("group_creation", u, c, END)
            /\ Replied("group_creation", "create_group_start", "command", u, c,
                       "criar_grupo", "register_first")
       ELSE /\ conversations' = SetState("group_creation", u, c, GROUP_NAME)
            /\ Replied("group_creation", "create_group_start", "command", u, c,
                       "criar_grupo", "ask_group_name")
    /\ UNCHANGED <<now, store, user_data, moderation, keyboards>>

create_group_start(u, c) ==
    /\ Takes("group_creation", "create_group_start", "command", u, c, "criar_grupo")
    /\ \E failing \in Faults(2) :
          IF failing # 0
          THEN /\ conversations' = conversations
               /\ Replied("group_creation", "create_group_start", "command", u, c,
                          "criar_grupo", "error_apology")
          ELSE IF u \notin DOMAIN users
          THEN /\ conversations' = SetState("group_creation", u, c, END)
               /\ Replied("group_creation", "create_group_start", "command", u, c,
                          "criar_grupo", "register_first")
          ELSE IF users[u].role # ROLE_AT
          THEN /\ conversations' = SetState("group_creation", u, c, END)
               /\ Replied("group_creation", "create_group_start", "command", u, c,
                          "criar_grupo", "only_at")
          ELSE /\ conversations' = SetState("group_creation", u, c, GROUP_NAME)
               /\ Replied("group_creation", "create_group_start", "command", u, c,
                          "criar_grupo", "ask_group_name")
    /\ UNCHANGED <<now, store, user_data, moderation, keyboards>>

process_group_name(u, c, t) ==
    /\ Takes("group_creation", "process_group_name", "text", u, c, t)
    /\ user_data' = SetData(u, "group_name", t)
    /\ conversations' = SetState("group_creation", u, c, GROUP_THEME)
    /\ Replied("group_creation", "process_group_name", "text", u, c, t, "ask_group_theme")
    /\ UNCHANGED <<now, store, moderation, keyboards>>

process_group_theme(u, c, t) ==
    /\ Takes("group_creation", "process_group_theme", "text", u, c, t)
    /\ user_data' = SetData(u, "group_theme", t)
    /\ conversations' = SetState("group_creation", u, c, GROUP_DESC)
    /\ Replied("group_creation", "process_group_theme", "text", u, c, t, "ask_group_desc")
    /\ UNCHANGED <<now, store, moderation, keyboards>>

process_group_desc(u, c, t) ==
    /\ Takes("group_creation", "process_group_desc", "text", u, c, t)
    /\ user_data' = SetData(u, "group_desc", t)
    /\ conversations' = SetState("group_creation", u, c, GROUP_MAX)
    /\ Replied("group_creation", "process_group_desc", "text", u, c, t, "ask_group_max")
    /\ UNCHANGED <<now, store, moderation, keyboards>>

\* a size test that turns the two limits away as well
process_group_max_open_range(u, c, t) ==
    /\ Takes("group_creation", "process_group_max", "text", u, c, t)
    /\ IF ~IsInt(t)
       THEN /\ Replied("group_creation", "process_group_max", "text", u, c, t, "max_not_a_number")
            /\ conversations' = SetState("group_creation", u, c, GROUP_MAX)
            /\ UNCHANGED <<users, groups, user_data, keyboards>>
       ELSE IF IntOf(t) <= GROUP_MAX_MIN \/ IntOf(t) >= GROUP_MAX_MAX
       THEN /\ Replied("group_creation", "process_group_max", "text", u, c, t, "max_out_of_range")
            /\ conversations' = SetState("group_creation", u, c, GROUP_MAX)
            /\ UNCHANGED <<users, groups, user_data, keyboards>>
       ELSE LET group_id == now
                d == user_data[u]
            IN  /\ user_data' = SetData(u, "group_max", IntOf(t))
                /\ groups' = create_group_doc(groups, group_id, d["group_name"],
                                 d["group_theme"], d["group_desc"], u, IntOf(t))
                /\ users' = add_group_to_user(users, u, group_id)
                /\ keyboards' = Show(c, {<<"ai", "on", group_id>>,
                                         <<"ai", "off", group_id>>})
                /\ conversations' = SetState("group_creation", u, c, END)
                /\ Replied("group_creation", "process_group_max", "text", u, c, t, "group_created")
    /\ UNCHANGED <<now, activities, messages, interactions, moderation>>

process_group_max(u, c, t) ==
    /\ Takes("group_creation", "process_group_max", "text", u, c, t)
    /\ IF ~IsInt(t)
       THEN /\ Replied("group_creation", "process_group_max", "text", u, c, t, "max_not_a_number")
            /\ conversations' = SetState("group_creation", u, c, GROUP_MAX)
            /\ UNCHANGED <<users, groups, user_data, keyboards>>
       ELSE IF IntOf(t) < GROUP_MAX_MIN \/ IntOf(t) > GROUP_MAX_MAX
       THEN /\ Replied("group_creation", "process_group_max", "text", u, c, t, "max_out_of_range")
            /\ conversations' = SetState("group_creation", u, c, GROUP_MAX)
            /\ UNCHANGED <<users, groups, user_data, keyboards>>
       ELSE LET group_id == now
                d == user_data[u]
            IN  /\ user_data' = SetData(u, "group_max", IntOf(t))
                /\ conversations' = SetState("group_creation", u, c, END)
                /\ \E failing \in Faults(2) :
                      /\ groups' = IF failing = 1 THEN groups
                                   ELSE create_group_doc(groups, group_id, d["group_name"],
                                            d["group_theme"], d["group_desc"], u, IntOf(t))
                      /\ users' = IF failing # 0 THEN users
                                  ELSE add_group_to_user(users, u, group_id)
                      /\ IF failing # 0
                         THEN /\ keyboards' = keyboards
                              /\ Replied("group_creation", "process_group_max", "text",
                                         u, c, t, "group_error")
                         ELSE /\ keyboards' = Show(c, {<<"ai", "on", group_id>>,
                                                       <<"ai", "off", group_id>>})
                              /\ Replied("group_creation", "process_group_max", "text",
                                         u, c, t, "group_created")
    /\ UNCHANGED <<now, activities, messages, interactions, moderation>>

toggle_ai_mediator(u, c, p) ==
    /\ Takes("dispatcher", "toggle_ai_mediator", "button", u, c, p)
    /\ LET ai_status == p[2]
           group_id == p[3]
           ai_enabled == (ai_status = "on")
       IN  /\ groups' = update_group_ai_settings(groups, group_id, DefaultSettings)
           /\ Replied("dispatcher", "toggle_ai_mediator", "button", u, c, p,
                      IF ai_enabled THEN "mediator_on" ELSE "mediator_off")
    /\ UNCHANGED <<now, users, activities, messages, interactions, conversations,
                   user_data,
                   moderation, keyboards>>

(***************************************************************************)
(* Activities (src/activity_management.py).  process_activity_duration and *)
(* toggle_ai_guidance exist in the module, but no state of the activity    *)
(* conversation handler names the former (src/main.py:326-331) and no      *)
(* reachable code shows the buttons of the latter.                         *)
(***************************************************************************)
list_activities(u, c) ==
    /\ Takes("dispatcher", "list_activities", "command", u, c, "atividades")
    /\ Replied("dispatcher", "list_activities", "command", u, c, "atividades", "activity_list")
    /\ UNCHANGED <<now, store, conversations, user_data, moderation, keyboards>>

help_command(u, c) ==
    /\ Takes("dispatcher", "help_command", "command", u, c, "ajuda")
    /\ Replied("dispatcher", "help_command", "command", u, c, "ajuda", "help")
    /\ UNCHANGED <<now, store, conversations, user_data, moderation, keyboards>>

\* an entry to activity creation that does not look for the caller's groups
start_activity_command_without_groups(u, c) ==
    /\ Takes("activity_creation", "start_activity_command", "command", u, c,
             "iniciar_atividade")
    /\ LET at_groups == {g \in DOMAIN groups : groups[g].created_by = u}
       IN  IF u \notin DOMAIN users
           THEN /\ conversations' = SetState("activity_creation", u, c, END)
                /\ Replied("activity_creation", "start_activity_command", "command",
                           u, c, "iniciar_atividade", "register_first")
                /\ UNCHANGED <<user_data, keyboards>>
           ELSE IF users[u].role # ROLE_AT
           THEN /\ conversations' = SetState("activity_creation", u, c, END)
                /\ Replied("activity_creation", "start_activity_command", "command",
                           u, c, "iniciar_atividade", "only_at")
                /\ UNCHANGED <<user_data, keyboards>>
           ELSE /\ user_data' = SetData(u, "at_groups",
                                   [g \in at_groups |-> groups[g].name])
                /\ keyboards' = Show(c, {<<"group", g>> : g \in at_groups})
                /\ conversations' = SetState("activity_creation", u, c, ACTIVITY_TYPE)
                /\ Replied("activity_creation", "start_activity_command", "command",
                           u, c, "iniciar_atividade", "ask_activity_group")
    /\ UNCHANGED <<now, store, moderation>>

start_activity_command(u, c) ==
    /\ Takes("activity_creation", "start_activity_command", "command", u, c,
             "iniciar_atividade")
    /\ LET at_groups == {g \in DOMAIN groups : groups[g].created_by = u}
       IN  IF u \notin DOMAIN users
           THEN /\ conversations' = SetState("activity_creation", u, c, END)
                /\ Replied("activity_creation", "start_activity_command", "command",
                           u, c, "iniciar_atividade", "register_first")
                /\ UNCHANGED <<user_data, keyboards>>
           ELSE IF users[u].role # ROLE_AT
           THEN /\ conversations' = SetState("activity_creation", u, c, END)
                /\ Replied("activity_creation", "start_activity_command", "command",
                           u, c, "iniciar_atividade", "only_at")
                /\ UNCHANGED <<user_data, keyboards>>
           ELSE IF at_groups = {}
           THEN /\ conversations' = SetState("activity_creation", u, c, END)
                /\ Replied("activity_creation", "start_activity_command", "command",
                           u, c, "iniciar_atividade", "create_group_first")
                /\ UNCHANGED <<user_data, keyboards>>
           ELSE /\ user_data' = SetData(u, "at_groups",
                                   [g \in at_groups |-> groups[g].name])
                /\ keyboards' = Show(c, {<<"group", g>> : g \in at_groups})
                /\ conversations' = SetState("activity_creation", u, c, ACTIVITY_TYPE)
                /\ Replied("activity_creation", "start_activity_command", "command",
                           u, c, "iniciar_atividade", "ask_activity_group")
    /\ UNCHANGED <<now, store, moderation>>

process_activity_group(u, c, p) ==
    /\ Takes("activity_creation", "process_activity_group", "button", u, c, p)
    /\ LET group_id == p[2]
           at_groups == user_data[u]["at_groups"]
           group_name == IF group_id \in DOMAIN at_groups THEN at_groups[group_id]
                         ELSE <<"G", "r", "u", "p", "o">>
       IN  user_data' = [user_data EXCEPT ![u] =
               Put(Put(@, "activity_group_id", group_id),
                   "activity_group_name", group_name)]
    /\ keyboards' = Show(c, TypeKeyboard)
    /\ conversations' = SetState("activity_creation", u, c, ACTIVITY_TITLE)
    /\ Replied("activity_creation", "process_activity_group", "button", u, c, p, "ask_activity_type")
    /\ UNCHANGED <<now, store, moderation>>

\* type_names.get(activity_type, activity_type), src/activity_management.py:173-180
type_names(activity_type) ==
    CASE activity_type = "discussao" -> "Discussão Temática"
      [] activity_type = "projeto" -> "Projeto Colaborativo"
      [] activity_type = "jogo" -> "Jogo Social"
      [] activity_type = "compartilhamento" -> "Compartilhamento de Interesses"
      [] OTHER -> activity_type

process_activity_type(u, c, p) ==
    /\ Takes("activity_creation", "process_activity_type", "button", u, c, p)
    /\ user_data' = [user_data EXCEPT ![u] =
           Put(Put(@, "activity_type", p[2]), "activity_type_name", type_names(p[2]))]
    /\ conversations' = SetState("activity_creation", u, c, ACTIVITY_DESC)
    /\ Replied("activity_creation", "process_activity_type", "button", u, c, p, "ask_activity_title")
    /\ UNCHANGED <<now, store, moderation, keyboards>>

process_activity_title(u, c, t) ==
    /\ Takes("activity_creation", "process_activity_title", "text", u, c, t)
    /\ user_data' = SetData(u, "activity_title", t)
    /\ conversations' = SetState("activity_creation", u, c, ACTIVITY_DURATION)
    /\ Replied("activity_creation", "process_activity_title", "text", u, c, t, "ask_activity_desc")
    /\ UNCHANGED <<now, store, moderation, keyboards>>

process_activity_desc(u, c, t) ==
    /\ Takes("activity_creation", "process_activity_desc", "text", u, c, t)
    /\ user_data' = SetData(u, "activity_desc", t)
    /\ conversations' = SetState("activity_creation", u, c, END)
    /\ Replied("activity_creation", "process_activity_desc", "text", u, c, t, "ask_activity_duration")
    /\ UNCHANGED <<now, store, moderation, keyboards>>
(***************************************************************************)
(* Moderation (src/ai_mediation.py).  r is the outcome of the Oracle call, *)
(* read only when the call is made.                                        *)
(***************************************************************************)
NoteReply(c) ==
    [reply_times EXCEPT ![c] = IF @ = <<>> THEN <<now>> ELSE <<@[Len(@)], now>>]

\* a group handler that also mediates in chats of no stored group
handle_group_message_any_chat(u, c, t, r) ==
    /\ Takes("dispatcher", "handle_group_message", "text", u, c, t)
    /\ messages' = messages + 1
    /\ LET chat_id == c
           stored == <<store_message(u, chat_id, t)>>
           enabled == chat_id \notin DOMAIN groups \/ groups[chat_id].ai_mediator_enabled
           should_intervene ==
               enabled /\ should_ai_intervene(chat_id, group_message_timestamps, now)
           m == mediate_group_conversation(r)
           audit == IF m.audit
                    THEN <<store_ai_interaction("group_mediation", m.response,
                                                m.alert_needed)>>
                    ELSE <<>>
       IN  IF ~should_intervene
           THEN /\ r = R_ola
                /\ Handled("dispatcher", "handle_group_message", "text", u, c, t,
                           stored, <<>>, <<>>)
                /\ UNCHANGED <<interactions, moderation>>
           ELSE IF r = R_never
           THEN /\ Calling("dispatcher", "handle_group_message", "text", u, c, t,
                           stored)
                /\ UNCHANGED <<interactions, moderation>>
           ELSE /\ interactions' = interactions + Len(audit)
                /\ IF Truthy(m.response)
                   THEN /\ group_message_timestamps' =
                               Put(group_message_timestamps, chat_id, now)
                        /\ reply_times' = NoteReply(chat_id)
                        /\ Handled("dispatcher", "handle_group_message", "text", u, c, t,
                               stored, audit,
                               <<AiMsg(chat_id, "group_reply", m.response)>>
                               \o (IF m.alert_needed /\ chat_id \in DOMAIN groups
                                   THEN <<Msg(groups[chat_id].created_by, "alert")>>
                                   ELSE <<>>))
                        /\ UNCHANGED private_chat_sessions
                   ELSE /\ Handled("dispatcher", "handle_group_message", "text", u, c,
                                   t, stored, audit, <<>>)
                        /\ UNCHANGED moderation
    /\ UNCHANGED <<now, users, groups, activities, conversations, user_data,
                   keyboards>>

\* a group handler that sets the mark after every Oracle call, answered or not
handle_group_message_marking_every_call(u, c, t, r) ==
    /\ Takes("dispatcher", "handle_group_message", "text", u, c, t)
    /\ messages' = messages + 1
    /\ LET chat_id == c
           stored == <<store_message(u, chat_id, t)>>
           enabled == chat_id \in DOMAIN groups /\ groups[chat_id].ai_mediator_enabled
           should_intervene ==
               enabled /\ should_ai_intervene(chat_id, group_message_timestamps, now)
           m == mediate_group_conversation(r)
           audit == IF m.audit
                    THEN <<store_ai_interaction("group_mediation", m.response,
                                                m.alert_needed)>>
                    ELSE <<>>
       IN  IF ~should_intervene
           THEN /\ r = R_ola
                /\ Handled("dispatcher", "handle_group_message", "text", u, c, t,
                           stored, <<>>, <<>>)
                /\ UNCHANGED <<interactions, moderation>>
           ELSE IF r = R_never
           THEN /\ Calling("dispatcher", "handle_group_message", "text", u, c, t,
                           stored)
                /\ UNCHANGED <<interactions, moderation>>
           ELSE /\ interactions' = interactions + Len(audit)
                /\ IF Truthy(m.response)
                   THEN /\ group_message_timestamps' =
                               Put(group_message_timestamps, chat_id, now)
                        /\ reply_times' = NoteReply(chat_id)
                        /\ Handled("dispatcher", "handle_group_message", "text", u, c, t,
                               stored, audit,
                               <<AiMsg(chat_id, "group_reply", m.response)>>
                               \o (IF m.alert_needed
                                   THEN <<Msg(groups[chat_id].created_by, "alert")>>
                                   ELSE <<>>))
                        /\ UNCHANGED private_chat_sessions
                   ELSE /\ Handled("dispatcher", "handle_group_message", "text", u, c,
                                   t, stored, audit, <<>>)
                        /\ group_message_timestamps' =
                               Put(group_message_timestamps, chat_id, now)
                        /\ UNCHANGED <<private_chat_sessions, reply_times>>
    /\ UNCHANGED <<now, users, groups, activities, conversations, user_data,
                   keyboards>>

handle_group_message(u, c, t, r) ==
    /\ Takes("dispatcher", "handle_group_message", "text", u, c, t)
    /\ messages' = messages + 1
    /\ LET chat_id == c
           stored == <<store_message(u, chat_id, t)>>
           enabled == chat_id \in DOMAIN groups /\ groups[chat_id].ai_mediator_enabled
           should_intervene ==
               enabled /\ should_ai_intervene(chat_id, group_message_timestamps, now)
           m == mediate_group_conversation(r)
           audit == IF m.audit
                    THEN <<store_ai_interaction("group_mediation", m.response,
                                                m.alert_needed)>>
                    ELSE <<>>
       IN  IF ~should_intervene
           THEN /\ r = R_ola
                /\ Handled("dispatcher", "handle_group_message", "text", u, c, t,
                           stored, <<>>, <<>>)
                /\ UNCHANGED <<interactions, moderation>>
           ELSE IF r = R_never
           THEN /\ Calling("dispatcher", "handle_group_message", "text", u, c, t,
                           stored)
                /\ UNCHANGED <<interactions, moderation>>
           ELSE /\ interactions' = interactions + Len(audit)
                /\ IF Truthy(m.response)
                   THEN /\ group_message_timestamps' =
                               Put(group_message_timestamps, chat_id, now)
                        /\ reply_times' = NoteReply(chat_id)
                        /\ Handled("dispatcher", "handle_group_message", "text", u, c, t,
                               stored, audit,
                               <<AiMsg(chat_id, "group_reply", m.response)>>
                               \o (IF m.alert_needed
                                   THEN <<Msg(groups[chat_id].created_by, "alert")>>
                                   ELSE <<>>))
                        /\ UNCHANGED private_chat_sessions
                   ELSE /\ Handled("dispatcher", "handle_group_message", "text", u, c,
                                   t, stored, audit, <<>>)
                        /\ UNCHANGED moderation
    /\ UNCHANGED <<now, users, groups, activities, conversations, user_data,
                   keyboards>>

\* a test that asks the heuristic even when a support session is open
support_wanted_by_text(text, is_support_session) ==
    ~StartsWithSlash(text) /\ text \in SupportTexts

\* handle_private_message, line 102: the message is put to the Oracle
support_wanted(text, is_support_session) ==
    ~StartsWithSlash(text) /\ (is_support_session \/ text \in SupportTexts)

\* a private handler that supports every registered sender
handle_private_message_any_role(u, c, t, r) ==
    /\ Takes("dispatcher", "handle_private_message", "text", u, c, t)
    /\ messages' = messages + 1
    /\ LET stored == <<store_message(u, 0, t)>>
           is_support_session == u \in DOMAIN private_chat_sessions
           respond ==
               /\ u \in DOMAIN users
               /\ support_wanted(t, is_support_session)
           m == provide_individual_support(t, r)
           audit == <<store_ai_interaction("individual_support", m.response,
                                           m.alert_needed)>>
       IN  IF ~respond
           THEN /\ r = R_ola
                /\ Handled("dispatcher", "handle_private_message", "text", u, c, t,
                           stored, <<>>, <<>>)
                /\ UNCHANGED <<interactions, private_chat_sessions>>
           ELSE IF r = R_never
           THEN /\ Calling("dispatcher", "handle_private_message", "text", u, c, t,
                           stored)
                /\ UNCHANGED <<interactions, private_chat_sessions>>
           ELSE /\ interactions' = interactions + 1
                /\ IF Truthy(m.response)
                   THEN /\ private_chat_sessions' =
                               IF is_support_session THEN private_chat_sessions
                               ELSE Put(private_chat_sessions, u, now)
                        /\ LET ats == IF m.alert_needed
                                      THEN ats_notified(groups, users[u].groups, <<>>)
                                      ELSE <<>>
                           IN  Handled("dispatcher", "handle_private_message", "text",
                                   u, c, t, stored, audit,
                                   <<AiMsg(c, "private_reply", m.response)>>
                                   \o [i \in 1..Len(ats) |-> Msg(ats[i], "alert")])
                   ELSE /\ Handled("dispatcher", "handle_private_message", "text", u,
                                   c, t, stored, audit, <<>>)
                        /\ UNCHANGED private_chat_sessions
    /\ UNCHANGED <<now, users, groups, activities, conversations, user_data,
                   group_message_timestamps, reply_times, keyboards>>

handle_private_message(u, c, t, r) ==
    /\ Takes("dispatcher", "handle_private_message", "text", u, c, t)
    /\ messages' = messages + 1
    /\ LET stored == <<store_message(u, 0, t)>>
           is_support_session == u \in DOMAIN private_chat_sessions
           respond ==
               /\ u \in DOMAIN users
               /\ users[u].role = ROLE_AUTISTA
               /\ support_wanted(t, is_support_session)
           m == provide_individual_support(t, r)
           audit == <<store_ai_interaction("individual_support", m.response,
                                           m.alert_needed)>>
       IN  IF ~respond
           THEN /\ r = R_ola
                /\ Handled("dispatcher", "handle_private_message", "text", u, c, t,
                           stored, <<>>, <<>>)
                /\ UNCHANGED <<interactions, private_chat_sessions>>
           ELSE IF r = R_never
           THEN /\ Calling("dispatcher", "handle_private_message", "text", u, c, t,
                           stored)
                /\ UNCHANGED <<interactions, private_chat_sessions>>
           ELSE /\ interactions' = interactions + 1
                /\ IF Truthy(m.response)
                   THEN /\ private_chat_sessions' =
                               IF is_support_session THEN private_chat_sessions
                               ELSE Put(private_chat_sessions, u, now)
                        /\ LET ats == IF m.alert_needed
                                      THEN ats_notified(groups, users[u].groups, <<>>)
                                      ELSE <<>>
                           IN  Handled("dispatcher", "handle_private_message", "text",
                                   u, c, t, stored, audit,
                                   <<AiMsg(c, "private_reply", m.response)>>
                                   \o [i \in 1..Len(ats) |-> Msg(ats[i], "alert")])
                   ELSE /\ Handled("dispatcher", "handle_private_message", "text", u,
                                   c, t, stored, audit, <<>>)
                        /\ UNCHANGED private_chat_sessions
    /\ UNCHANGED <<now, users, groups, activities, conversations, user_data,
                   group_message_timestamps, reply_times, keyboards>>

(***************************************************************************)
(* The next-state relation.                                                *)
(***************************************************************************)
\* what the run's scope lets happen
Actors == Scopes[scope].actors
ActorChats == Scopes[scope].chats
ActorCommands == Scopes[scope].commands
ActorTexts == Scopes[scope].texts
Outcomes == Scopes[scope].outcomes
Payloads == {k[2] : k \in keyboards}

Next ==
    \/ Tick
    \/ \E u \in Actors, c \in ActorChats : start(u, c)
    \/ \E u \in Actors, c \in ActorChats : update_profile_command(u, c)
    \/ \E u \in Actors, c \in ActorChats : create_group_start(u, c)
    \/ \E u \in Actors, c \in ActorChats : start_activity_command(u, c)
    \/ \E u \in Actors, c \in ActorChats : list_groups(u, c)
    \/ \E u \in Actors, c \in ActorChats : list_activities(u, c)
    \/ \E u \in Actors, c \in ActorChats : help_command(u, c)
    \/ \E u \in Actors, c \in ActorChats, h \in ConvNames : cancel(h, u, c)
    \/ \E u \in Actors, c \in ActorChats, x \in ActorCommands : Unhandled("command", u, c, x)
    \/ \E u \in Actors, c \in ActorChats, t \in ActorTexts : process_name(u, c, t)
    \/ \E u \in Actors, c \in ActorChats, t \in ActorTexts : process_profile_age(u, c, t)
    \/ \E u \in Actors, c \in ActorChats, t \in ActorTexts : process_profile_contacts(u, c, t)
    \/ \E u \in Actors, c \in ActorChats, t \in ActorTexts : process_profile_academic(u, c, t)
    \/ \E u \in Actors, c \in ActorChats, t \in ActorTexts : process_profile_professionals(u, c, t)
    \/ \E u \in Actors, c \in ActorChats, t \in ActorTexts : process_profile_interests(u, c, t)
    \/ \E u \in Actors, c \in ActorChats, t \in ActorTexts : process_profile_triggers(u, c, t)
    \/ \E u \in Actors, c \in ActorChats, t \in ActorTexts : process_group_name(u, c, t)
    \/ \E u \in Actors, c \in ActorChats, t \in ActorTexts : process_group_theme(u, c, t)
    \/ \E u \in Actors, c \in ActorChats, t \in ActorTexts : process_group_desc(u, c, t)
    \/ \E u \in Actors, c \in ActorChats, t \in ActorTexts : process_group_max(u, c, t)
    \/ \E u \in Actors, c \in ActorChats, t \in ActorTexts : process_activity_title(u, c, t)
    \/ \E u \in Actors, c \in ActorChats, t \in ActorTexts : process_activity_desc(u, c, t)
    \/ \E u \in Actors, c \in ActorChats, t \in ActorTexts, r \in Outcomes :
            handle_group_message(u, c, t, r)
    \/ \E u \in Actors, c \in ActorChats, t \in ActorTexts, r \in Outcomes :
            handle_private_message(u, c, t, r)
    \/ \E u \in Actors, c \in ActorChats, p \in Payloads : process_role(u, c, p)
    \/ \E u \in Actors, c \in ActorChats, p \in Payloads : process_profile_gender(u, c, p)
    \/ \E u \in Actors, c \in ActorChats, p \in Payloads : process_profile_communication(u, c, p)
    \/ \E u \in Actors, c \in ActorChats, p \in Payloads : profile_menu(u, c, p)
    \/ \E u \in Actors, c \in ActorChats, p \in Payloads : process_activity_group(u, c, p)
    \/ \E u \in Actors, c \in ActorChats, p \in Payloads : process_activity_type(u, c, p)
    \/ \E u \in Actors, c \in ActorChats, p \in Payloads : join_group_callback(u, c, p)
    \/ \E u \in Actors, c \in ActorChats, p \in Payloads : toggle_ai_mediator(u, c, p)
    \/ \E u \in Actors, c \in ActorChats, p \in Payloads : Unhandled("button", u, c, p)

Spec == Init /\ [][Next]_vars

\* The moderation runs on their own (the steps of Next that a run of the
\* moderation scope can take), when the dispatcher keeps taking the updates
\* that arrive and the clock keeps running.
Moderation ==
    \/ Tick
    \/ \E u \in Actors, c \in ActorChats, t \in ActorTexts, r \in Outcomes :
            handle_group_message(u, c, t, r)
    \/ \E u \in Actors, c \in ActorChats, t \in ActorTexts, r \in Outcomes :
            handle_private_message(u, c, t, r)
    \/ \E u \in Actors, c \in ActorChats, p \in Payloads : toggle_ai_mediator(u, c, p)

ModerationInit == Init /\ scope = "moderation"
LiveSpec == ModerationInit /\ [][Moderation]_vars /\ WF_vars(Moderation)

(***************************************************************************)
(* Claims.  `last` is the update handled last, with what its handler       *)
(* stored, audited and sent.                                               *)
(***************************************************************************)
Session(h, u, c) == conversations[h][<<c, u>>]
ActiveFlows(u) == {h \in ConvNames : \E c \in Chats : Session(h, u, c) # END}
\* the replies that report a storage failure to the user
FailureReplies == {"user_error", "profile_error", "group_error", "error_apology"}
StorageFailed(e) == \E i \in 1..Len(e.sent) : e.sent[i].kind \in FailureReplies

\* C1: activity creation does not end before the duration has been collected:
\* after the description is submitted the activity flow is still active,
\* waiting for the duration.
C1_FlowWaitsForDuration ==
    last.f = "process_activity_desc" =>
        Session("activity_creation", last.u, last.c) # END

\* C2: after an accepted cancel the user has no active session in any flow.
C2_CancelLeavesNoSession ==
    last.f = "cancel" => ActiveFlows(last.u) = {}

\* C3: when a flow is cancelled or completes and leaves the user with no
\* active flow, the collected fields are discarded: the per-user session
\* data that a later flow reads holds no value the user entered (at_groups,
\* the facilitator's groups as the bot looked them up, is not counted).
C3_EndedFlowKeepsNoFields ==
    (/\ last.h \in ConvNames
     /\ Session(last.h, last.u, last.c) = END
     /\ ActiveFlows(last.u) = {}) =>
        DOMAIN user_data[last.u] \subseteq {"at_groups"}

\* C4: a user never has two flows active at once.
C4_OneActiveFlow ==
    \A u \in Users : Cardinality(ActiveFlows(u)) <= 1

\* C5: a facilitator who issues the group-creation entry command, with or
\* without a group-creation session already active, is afterwards in a
\* session at the flow's first state.
C5_EntryCommandRestarts ==
    (/\ last.kind = "command"
     /\ last.x = EntryCommand["group_creation"]
     /\ last.u \in DOMAIN users
     /\ users[last.u].role = ROLE_AT) =>
        Session("group_creation", last.u, last.c) = GROUP_NAME

\* C6: within a run of the process, any two automated replies sent to the
\* same group are more than 5 minutes apart (reply_times keeps the times of
\* the last two replies of each group, so every consecutive pair is checked).
C6_RepliesMoreThanCooldownApart ==
    \A c \in GroupChats :
        Len(reply_times[c]) = 2 =>
            reply_times[c][2] - reply_times[c][1] > COOLDOWN_MINUTES

\* two automated replies have been sent to one group
C6_TwoRepliesInOneGroup ==
    \E c \in GroupChats : Len(reply_times[c]) = 2

GroupReply(e) == \E i \in 1..Len(e.sent) : e.sent[i].kind = "group_reply"
\* no automated reply yet in group chat c, or the last is over 5 minutes old
Fresh(c) ==
    \/ reply_times[c] = <<>>
    \/ now - reply_times[c][Len(reply_times[c])] > COOLDOWN_MINUTES
\* this step handles a message of a stored group with the mediator enabled
\* that arrives fresh
FreshGroupMessage ==
    /\ events' = events + 1
    /\ last'.f = "handle_group_message"
    /\ last'.c \in DOMAIN groups
    /\ groups[last'.c].ai_mediator_enabled
    /\ Fresh(last'.c)
\* the Oracle's answer to the call of event e was empty
EmptyAnswer(e) == e.audit # <<>> /\ e.audit[1].response = T_empty

C8_MembersWithinCapacity ==
    \A g \in DOMAIN groups : Len(groups[g].members) <= groups[g].max_members

\* C9: after the mediator prompt of a stored group is answered 'disable',
\* the group's AI-mediator flag is false.
C9_DisableClearsFlag ==
    (/\ last.f = "toggle_ai_mediator"
     /\ last.x[2] = "off"
     /\ last.x[3] \in DOMAIN groups) =>
        ~groups[last.x[3]].ai_mediator_enabled

AlertsTo(e, a) ==
    Cardinality({i \in 1..Len(e.sent) : e.sent[i].kind = "alert" /\ e.sent[i].to = a})

\* C10: for a private message of a registered autistic member that qualifies
\* for support and triggers the alert policy, the creator of every stored
\* group in the sender's membership list receives exactly one notification.
C10_EveryFacilitatorAlertedOnce ==
    (/\ last.f = "handle_private_message"
     /\ last.u \in DOMAIN users
     /\ users[last.u].role = ROLE_AUTISTA
     /\ last.x \in SupportTexts
     /\ last.x \in AlertTexts) =>
        \A g \in SeqToSet(users[last.u].groups) :
            g \in DOMAIN groups => AlertsTo(last, groups[g].created_by) = 1

\* the fixed texts that stand in for an answer when the Oracle call fails
Placeholders ==
    {MSG_NO_API_KEY, MSG_API_ERROR, MSG_CALL_ERROR, MSG_GROUP_ERROR, MSG_PRIVATE_ERROR}
\* the automated reply of event e is a placeholder
PlaceholderReply(e) ==
    \E i \in 1..Len(e.sent) :
        /\ e.sent[i].kind \in {"group_reply", "private_reply"}
        /\ e.sent[i].text \in Placeholders
Alerted(e) == \E i \in 1..Len(e.sent) : e.sent[i].kind = "alert"

\* C11: when the Oracle call fails, in the group path as in the private path,
\* the inbound message is stored, the placeholder is sent as the reply, and
\* an alert goes out exactly when the inbound message text triggers the
\* alert policy.
C11_FailedCallAlertsOnInboundText ==
    (/\ last.f \in {"handle_group_message", "handle_private_message"}
     /\ PlaceholderReply(last)) =>
        /\ last.stored # <<>>
        /\ Alerted(last) <=> last.x \in AlertTexts

\* C12: handling a message always terminates: a handler that is inside the
\* Oracle request leaves it, whether or not the Oracle ever answers, and the
\* dispatcher goes on to the updates that arrive afterwards.
C12_CallIsAbandoned ==
    in_call ~> ~in_call

\* this step handles a plain-text message in the moderation engine
ModeratedMessage ==
    /\ events' = events + 1
    /\ last'.f \in {"handle_group_message", "handle_private_message"}

\* C13: every plain-text message that reaches the moderation engine, group
\* or private, is appended to the message log as it arrived, whatever the
\* group/role gate, the throttle, the Oracle call and the alert evaluation
\* then do: with or without an automated reply, and also when the handler
\* is still inside the Oracle call.
C13_MessageStoredFirst ==
    [][ModeratedMessage =>
          /\ messages' = messages + 1
          /\ last'.stored =
                 <<[user_id |-> last'.u,
                    group_id |-> IF last'.f = "handle_group_message"
                                 THEN last'.c ELSE 0,
                    text |-> last'.x]>>]_vars

\* a group message is in the log while its Oracle call has not returned
C13_StoredBeforeOracleAnswers ==
    /\ in_call
    /\ last.f = "handle_group_message"
    /\ last.stored # <<>>
    /\ last.sent = <<>>
    /\ messages = events

\* u is unregistered or registered with a role other than facilitator
NonFacilitator(us, u) == u \notin DOMAIN us \/ us[u].role # ROLE_AT
CreationFlows == {"group_creation", "activity_creation"}
\* this step handles the entry command of a creation flow from such a caller
GatedEntry ==
    /\ events' = events + 1
    /\ last'.kind = "command"
    /\ last'.x \in {EntryCommand[h] : h \in CreationFlows}
    /\ NonFacilitator(users, last'.u)

\* C14: an unregistered caller or a non-facilitator who issues the entry
\* command of group creation or of activity creation is turned away with a
\* message: no group and no activity is written, the caller is in no session
\* of a creation flow, and text that such a caller sends is never taken by a
\* creation flow.
C14_CreationEntryGated ==
    [][/\ GatedEntry =>
            /\ last'.f \in {"create_group_start", "start_activity_command"}
            /\ last'.sent = <<Msg(last'.c, IF last'.u \in DOMAIN users
                                           THEN "only_at" ELSE "register_first")>>
            /\ groups' = groups
            /\ activities' = activities
       /\ \A u \in Users, c \in Chats, h \in CreationFlows :
              NonFacilitator(users', u) => Session(h, u, c)' = END
       /\ (/\ events' = events + 1
           /\ last'.kind = "text"
           /\ NonFacilitator(users, last'.u)) => last'.h \notin CreationFlows]_vars

\* a registered member who is no facilitator has asked to start an activity
C14_MemberTurnedAway ==
    /\ last.f = "start_activity_command"
    /\ last.u \in DOMAIN users
    /\ users[last.u].role = ROLE_AUTISTA
    /\ last.sent = <<Msg(last.c, "only_at")>>

\* the groups that facilitator u created
GroupsOf(u) == {g \in DOMAIN groups : groups[g].created_by = u}

\* C15: a facilitator who created no group and issues the activity-start
\* command gets the 'create a group first' message and no session; whoever
\* is in an activity-creation session is the creator of a group, so that no
\* input of a facilitator without groups is taken by the flow.
C15_NoGroupNoActivityFlow ==
    /\ (/\ last.f = "start_activity_command"
        /\ ~NonFacilitator(users, last.u)
        /\ GroupsOf(last.u) = {}) =>
            /\ last.sent = <<Msg(last.c, "create_group_first")>>
            /\ Session("activity_creation", last.u, last.c) = END
    /\ \A u \in Users, c \in Chats :
           Session("activity_creation", u, c) # END => GroupsOf(u) # {}

\* a facilitator without groups has issued the activity-start command
C15_FacilitatorWithoutGroupAsked ==
    /\ last.f = "start_activity_command"
    /\ last.u \in DOMAIN users
    /\ users[last.u].role = ROLE_AT
    /\ GroupsOf(last.u) = {}

\* the state of flow h, after this step, for the sender of event e
SessionAfter(h, e) == conversations'[h][<<e.c, e.u>>]

\* the text is an integer numeral (as int() reads it) from lo to hi
IntegerWithin(t, lo, hi) == IsInt(t) /\ lo <= IntOf(t) /\ IntOf(t) <= hi

\* C16: in the age state of the registration an integer from 5 to 100, the
\* limits 5 and 100 included, is recorded as the age and moves the session
\* to the gender state; any other input leaves the session in the age state
\* and records nothing.
C16_AgeValidated ==
    [][(events' = events + 1 /\ last'.f = "process_profile_age") =>
          IF IntegerWithin(last'.x, 5, 100)
          THEN /\ SessionAfter("registration", last') = PROFILE_GENDER
               /\ user_data'[last'.u]["profile_age"] = IntOf(last'.x)
          ELSE /\ SessionAfter("registration", last') = PROFILE_AGE
               /\ user_data' = user_data
               /\ users' = users]_vars

\* a second try at the age, the upper limit, has been accepted after a
\* first one was turned away
C16_LimitAcceptedOnRetry ==
    /\ last.f = "process_profile_age"
    /\ last.x = T_100
    /\ events = 5
    /\ Session("registration", last.u, last.c) = PROFILE_GENDER

\* C17: in the max-members state of group creation an integer from 2 to 50,
\* the limits included, ends the session and, unless the store reports a
\* failure, creates the group with that capacity; any other input leaves the session in the max-members state and
\* the groups as they were; and a group comes into being by no other step.
C17_MaxMembersValidated ==
    [][/\ (events' = events + 1 /\ last'.f = "process_group_max") =>
              IF IntegerWithin(last'.x, 2, 50)
              THEN /\ SessionAfter("group_creation", last') = END
                   /\ ~StorageFailed(last') =>
                          /\ now \in DOMAIN groups'
                          /\ groups'[now].max_members = IntOf(last'.x)
                          /\ groups'[now].created_by = last'.u
              ELSE /\ SessionAfter("group_creation", last') = GROUP_MAX
                   /\ groups' = groups
       /\ DOMAIN groups' # DOMAIN groups =>
              /\ last'.f = "process_group_max"
              /\ IntegerWithin(last'.x, 2, 50)]_vars

\* a group of the largest size allowed has been created
C17_LargestGroupCreated ==
    /\ last.f = "process_group_max"
    /\ last.x = T_50
    /\ ~StorageFailed(last)
    /\ \E g \in DOMAIN groups : groups[g].max_members = 50

\* C18: once the activity flow has asked for the duration, the text that the
\* facilitator sends next in that chat is taken by the activity flow as the
\* duration (to be accepted from 5 to 180 and asked for again otherwise).
C18_DurationTakenByFlow ==
    [][(/\ last.f = "process_activity_desc"
        /\ events' = events + 1
        /\ last'.kind = "text"
        /\ last'.u = last.u
        /\ last'.c = last.c) => last'.h = "activity_creation"]_vars

PrivateReply(e) == \E i \in 1..Len(e.sent) : e.sent[i].kind = "private_reply"
\* this step handles a private message of a user whose support session is open
MessageInOpenSession ==
    /\ events' = events + 1
    /\ last'.f = "handle_private_message"
    /\ last'.u \in DOMAIN private_chat_sessions
\* a support session that is open stays open
SessionsStayOpen ==
    \A u \in Users :
        u \in DOMAIN private_chat_sessions => u \in DOMAIN private_chat_sessions'

\* the Oracle was asked for event e and its answer was empty or null
BlankAnswer(e) == e.audit # <<>> /\ ~Truthy(e.audit[1].response)

AutisticSender(e) == e.u \in DOMAIN users /\ users[e.u].role = ROLE_AUTISTA

SameLetter(a, b) ==
    \/ a = b
    \/ \E i \in 1..Len(UpperCase) : {a, b} = {UpperCase[i], LowerCase[i]}
\* text t holds a term of the alert vocabulary, in whatever case
HasAlertTerm(t) ==
    \E kw \in alert_keywords :
        \E i \in 0..(Len(t) - Len(kw)) :
            \A j \in 1..Len(kw) : SameLetter(t[i + j], kw[j])
\* the texts that the policy can be given in the model, and those of them
\* that hold a term (computed once)
PolicyInputs == Texts \cup CallOutcomes \cup {R_CRISE}
TextsWithAlertTerm == {t \in PolicyInputs : HasAlertTerm(t)}
\* the text that the alert policy was given for audit record a of event e:
\* the Oracle's answer in a group, the inbound message in a private chat
Analysed(e, a) == IF a.type = "group_mediation" THEN a.response ELSE e.x

\* C20: the alert decision is a function of the analysed text alone: in
\* every reachable state, whatever the throttle marks, the open support
\* sessions and the calls made before, it is true exactly when the text
\* holds a term of the vocabulary, in whatever case.
C20_AlertIsFunctionOfText ==
    \A i \in 1..Len(last.audit) :
        /\ Analysed(last, last.audit[i]) \in PolicyInputs
        /\ last.audit[i].alert_needed =
               (Analysed(last, last.audit[i]) \in TextsWithAlertTerm)

\* in an open support session, a text in capitals with an accented capital
\* has raised the alert
C20_CapitalsRaiseAlert ==
    /\ last.f = "handle_private_message"
    /\ last.x = T_SUICIDIO
    /\ last.u \in DOMAIN private_chat_sessions
    /\ events = 2
    /\ last.audit # <<>>
    /\ last.audit[1].alert_needed

\* this step handles a private message that qualifies for a reply: it comes
\* from a registered autistic member, is no command, and matches the
\* support heuristic or falls in an open support session
QualifyingPrivateMessage ==
    /\ events' = events + 1
    /\ last'.f = "handle_private_message"
    /\ AutisticSender(last')
    /\ support_wanted(last'.x, last'.u \in DOMAIN private_chat_sessions)

\* C21: in the private path the alert follows the inbound text alone: a
\* message that qualifies for a reply raises a notification exactly when
\* its own text holds an alert term, whatever the generated reply holds.
C21_PrivateAlertFollowsMessage ==
    [][QualifyingPrivateMessage =>
          (Alerted(last') <=> last'.x \in AlertTexts)]_vars

\* this step handles a message of a chat that is no stored group, or of a
\* stored group whose AI-mediator flag is off
GatedGroupMessage ==
    /\ events' = events + 1
    /\ last'.f = "handle_group_message"
    /\ (last'.c \notin DOMAIN groups \/ ~groups[last'.c].ai_mediator_enabled)

\* C22: a message in a chat that is no stored group, or in a group whose
\* AI-mediator flag is off, leads to no Oracle call and no audit record, to
\* no reply and no alert, and leaves the throttle marks as they were.
C22_GroupGate ==
    [][GatedGroupMessage =>
          /\ last'.sent = <<>>
          /\ last'.audit = <<>>
          /\ ~in_call'
          /\ interactions' = interactions
          /\ group_message_timestamps' = group_message_timestamps]_vars

\* a message with an alert term has been handled in a chat of no stored group
C22_UnknownGroupSilent ==
    /\ last.f = "handle_group_message"
    /\ last.c \notin DOMAIN groups
    /\ last.x = T_socorro
    /\ last.sent = <<>>

\* this step handles a private message of a sender who is unregistered or a
\* facilitator
GatedPrivateMessage ==
    /\ events' = events + 1
    /\ last'.f = "handle_private_message"
    /\ (last'.u \notin DOMAIN users \/ users[last'.u].role = ROLE_AT)

\* C23: a private message of an unregistered sender or of a facilitator
\* leads to no Oracle call and no audit record, to no reply and no alert,
\* and opens no support session.
C23_PrivateGate ==
    [][GatedPrivateMessage =>
          /\ last'.sent = <<>>
          /\ last'.audit = <<>>
          /\ ~in_call'
          /\ interactions' = interactions
          /\ private_chat_sessions' = private_chat_sessions]_vars

\* a facilitator has sent a private message with an alert term that the
\* support heuristic selects
C23_FacilitatorUnanswered ==
    /\ last.f = "handle_private_message"
    /\ last.u \in DOMAIN users
    /\ users[last.u].role = ROLE_AT
    /\ last.x = T_socorro
    /\ last.x \in SupportTexts
    /\ last.sent = <<>>

\* C24: every stored user record has the role 'autista' or 'at'.
C24_RolesAreKnown ==
    \A u \in DOMAIN users : users[u].role \in {ROLE_AUTISTA, ROLE_AT}

\* C26: a button press is handled by the handler of its payload family,
\* whatever sessions the presser has active: a join payload by the join
\* handler, a mediator-toggle payload by the mediator toggle.
C26_ButtonReachesItsHandler ==
    last.kind = "button" =>
        /\ last.x[1] = "join" => last.f = "join_group_callback"
        /\ last.x[1] = "ai" => last.f = "toggle_ai_mediator"

\* C25: once a user record exists, its role never changes.
C25_RoleNeverChanges ==
    [][\A u \in DOMAIN users :
           u \in DOMAIN users' /\ users'[u].role = users[u].role]_vars

\* the states of the registration in the order claimed
RegistrationOrder ==
    <<NAME, ROLE, PROFILE_AGE, PROFILE_GENDER, PROFILE_CONTACTS, PROFILE_ACADEMIC,
      PROFILE_PROFESSIONALS, PROFILE_INTERESTS, PROFILE_TRIGGERS,
      PROFILE_COMMUNICATION>>
\* state s2 follows state s1 in that order
Follows(s1, s2) ==
    \E i \in 1..(Len(RegistrationOrder) - 1) :
        RegistrationOrder[i] = s1 /\ RegistrationOrder[i + 1] = s2
\* this step is taken by a state of the registration flow
RegistrationStep ==
    /\ events' = events + 1
    /\ last'.h = "registration"
    /\ last'.f \notin {"start", "cancel"}

\* C27: a step of the registration leaves the session in its state (input
\* turned away), moves it to the next state of the fixed order, or ends it,
\* and it ends only at role selection (with a role other than 'autista', or
\* when the store reports a failure) or at the communication style.  While
\* the store works the user record is written at role selection, with no
\* profile field collected yet, and next at the last step, with the fields
\* collected; choosing facilitator writes the record and ends the flow.
C27_RegistrationInOrder ==
    [][RegistrationStep =>
          LET u == last'.u
              s1 == Session("registration", last'.u, last'.c)
              s2 == SessionAfter("registration", last')
          IN  /\ s1 # END
              /\ \/ s2 = s1 /\ last'.f = "process_profile_age"
                 \/ Follows(s1, s2)
                 \/ s2 = END /\ s1 = ROLE
                       /\ (last'.x # ROLE_AUTISTA \/ StorageFailed(last'))
                 \/ s2 = END /\ s1 = PROFILE_COMMUNICATION
              /\ users' # users =>
                     last'.f \in {"process_role", "process_profile_communication"}
              /\ (last'.f = "process_role" /\ ~StorageFailed(last')) =>
                     /\ u \in DOMAIN users'
                     /\ users'[u].role = last'.x
                     /\ last'.x = ROLE_AUTISTA => users'[u].profile = DefaultProfile
                     /\ last'.x = ROLE_AT => s2 = END
              /\ (/\ last'.f = "process_profile_communication"
                  /\ u \in DOMAIN users
                  /\ ~StorageFailed(last')) =>
                     /\ users'[u].profile.style = last'.x
                     /\ "profile_age" \in DOMAIN user_data[u] =>
                            users'[u].profile.age = <<user_data[u]["profile_age"]>>]_vars

\* an autistic member has completed the registration with age 7
C27_ProfileCompleted ==
    /\ last.f = "process_profile_communication"
    /\ Session("registration", last.u, last.c) = END
    /\ last.u \in DOMAIN users
    /\ users[last.u].role = ROLE_AUTISTA
    /\ users[last.u].profile.age = <<7>>

\* C28: when the max-members step accepts the value N and the store reports
\* no failure, the group of this creation exists with the issuing facilitator as creator and as its only
\* member, with max_members N and the AI-mediator flag on; the group is in
\* the creator's membership list and the creator's session has ended.
C28_GroupCreatedAsEntered ==
    [][(/\ events' = events + 1
        /\ last'.f = "process_group_max"
        /\ IntegerWithin(last'.x, 2, 50)
        /\ ~StorageFailed(last')) =>
          LET u == last'.u
              group_id == now
          IN  /\ group_id \in DOMAIN groups'
              /\ groups'[group_id].created_by = u
              /\ groups'[group_id].members = <<u>>
              /\ groups'[group_id].max_members = IntOf(last'.x)
              /\ groups'[group_id].ai_mediator_enabled
              /\ groups'[group_id].name = user_data[u]["group_name"]
              /\ u \in DOMAIN users'
              /\ group_id \in SeqToSet(users'[u].groups)
              /\ SessionAfter("group_creation", last') = END]_vars

\* a facilitator has created a second group, of the smallest size allowed
C28_SmallestGroupCreated ==
    /\ last.f = "process_group_max"
    /\ last.x = T_2
    /\ now \in DOMAIN groups
    /\ groups[now].members = <<last.u>>
    /\ Len(users[last.u].groups) = 2

\* C29: whenever the mediator has produced the automated reply of a group
\* intervention or of a private response, from the Oracle's answer or from a
\* failure, exactly one audit record was written for it.
C29_ReplyIsAudited ==
    (GroupReply(last) \/ PrivateReply(last)) => Len(last.audit) = 1

\* this step is a flow step that reported a storage failure to the user
FailedFlowStep ==
    /\ events' = events + 1
    /\ last'.h \in ConvNames
    /\ StorageFailed(last')

\* C30: a flow step whose storage operation fails apologises to the user,
\* leaves the store as it was before the step, and leaves the sender with no
\* active session in that flow.
C30_FailedStepRecordsNothing ==
    [][FailedFlowStep =>
          /\ store' = store
          /\ SessionAfter(last'.h, last') = END]_vars

\* the mark of group chat c after this step differs from the one before it
MarkChanges(c) ==
    \/ c \in DOMAIN group_message_timestamps' /\ c \notin DOMAIN group_message_timestamps
    \/ c \in DOMAIN group_message_timestamps /\ c \notin DOMAIN group_message_timestamps'
    \/ /\ c \in DOMAIN group_message_timestamps
       /\ c \in DOMAIN group_message_timestamps'
       /\ group_message_timestamps'[c] # group_message_timestamps[c]
\* event e sent an automated reply to group chat c
RepliedTo(e, c) ==
    \E i \in 1..Len(e.sent) : e.sent[i].kind = "group_reply" /\ e.sent[i].to = c

\* C31: the last-intervention mark of a group changes only in a step that
\* handles a message of that group and sends an automated reply to it; every
\* other step (a throttled or gated message, a private message, a message of
\* another group, a command, a button, the clock) leaves it as it was.
C31_MarkChangesOnlyWithReply ==
    [][\A c \in Chats :
          MarkChanges(c) =>
              /\ events' = events + 1
              /\ last'.f = "handle_group_message"
              /\ last'.c = c
              /\ RepliedTo(last', c)]_vars

\* a reply has just marked one group while another group keeps an older mark
C31_OtherGroupKeepsMark ==
    /\ last.f = "handle_group_message"
    /\ RepliedTo(last, last.c)
    /\ group_message_timestamps[last.c] = now
    /\ \E c \in DOMAIN group_message_timestamps :
          c # last.c /\ group_message_timestamps[c] < now

\* the alerts sent by event e
Alerts(e) == {i \in 1..Len(e.sent) : e.sent[i].kind = "alert"}

\* C32: a step of the group path sends an alert only together with an
\* automated reply to the group of the message, and only when the alert
\* policy triggers on the text of that reply; the alert goes to the creator
\* of that group and to nobody else, and there is at most one per message.
C32_GroupAlertToCreatorOnly ==
    [][(events' = events + 1 /\ last'.f = "handle_group_message") =>
          /\ Cardinality(Alerts(last')) <= 1
          /\ \A i \in Alerts(last') :
                /\ RepliedTo(last', last'.c)
                /\ \E j \in 1..Len(last'.sent) :
                      /\ last'.sent[j].kind = "group_reply"
                      /\ last'.sent[j].text \in AlertTexts
                /\ last'.c \in DOMAIN groups
                /\ last'.sent[i].to = groups[last'.c].created_by]_vars

\* a reply with an alert term in the group of facilitator 3 has alerted them
C32_CreatorOfThatGroupAlerted ==
    /\ last.f = "handle_group_message"
    /\ last.c = T0 - 2
    /\ last.sent = <<AiMsg(T0 - 2, "group_reply", T_crise), Msg(3, "alert")>>

\* the states of each flow that wait for a button press; the others wait for
\* a text (src/main.py:284-333)
ButtonStates ==
    [registration |-> {ROLE, PROFILE_GENDER, PROFILE_COMMUNICATION},
     profile_update |-> {PROFILE_INTERESTS},
     group_creation |-> {},
     activity_creation |-> {ACTIVITY_TYPE, ACTIVITY_TITLE}]
\* the fields each flow collects in the user's scratch data
FlowFields ==
    [registration |-> {"name", "profile_age", "profile_gender", "profile_contacts",
                       "profile_academic", "profile_professionals",
                       "profile_interests", "profile_triggers",
                       "profile_communication"},
     profile_update |-> {},
     group_creation |-> {"group_name", "group_theme", "group_desc", "group_max"},
     activity_creation |-> {"at_groups", "activity_group_id", "activity_group_name",
                            "activity_type", "activity_type_name", "activity_title",
                            "activity_desc", "activity_duration"}]
\* event e has not the shape that state s of flow h waits for
Mismatch(h, s, e) ==
    \/ e.kind = "command" /\ e.x # "cancel"
    \/ e.kind = "text" /\ s \in ButtonStates[h]
    \/ e.kind = "button" /\ s \notin ButtonStates[h]
\* the fields of flow h in the scratch data d
Collected(h, d) == [k \in FlowFields[h] \cap DOMAIN d |-> d[k]]

\* C33: when the sender has an open session of a flow in the chat of the event
\* and the event is not of the shape the session's state waits for (a text
\* where a button press is awaited, a button press where a text is awaited,
\* a command other than cancel), the step leaves that session in its state
\* and the fields that flow has collected as they were.
C33_MismatchLeavesSession ==
    [][\A h \in ConvNames :
          (/\ events' = events + 1
           /\ Session(h, last'.u, last'.c) # END
           /\ Mismatch(h, Session(h, last'.u, last'.c), last')) =>
              /\ SessionAfter(h, last') = Session(h, last'.u, last'.c)
              /\ Collected(h, user_data'[last'.u]) = Collected(h, user_data[last'.u])]_vars

\* a text has arrived while the registration waits for the role button
C33_TextAtRoleMenu ==
    /\ last.kind = "text"
    /\ last.h = "dispatcher"
    /\ Session("registration", last.u, last.c) = ROLE
    /\ "name" \in DOMAIN user_data[last.u]

\* this step handles a button press of a user whose profile-update session
\* is open in the chat of the press
PressInProfileUpdate ==
    /\ events' = events + 1
    /\ last'.kind = "button"
    /\ Session("profile_update", last'.u, last'.c) = PROFILE_INTERESTS

\* C34: while the profile-update session of a user is open, a button press
\* of that user in that chat leaves the session in the menu state and writes
\* nothing to the user records.
C34_PressWritesNothing ==
    [][PressInProfileUpdate =>
          /\ SessionAfter("profile_update", last') = PROFILE_INTERESTS
          /\ users' = users]_vars

\* C35: a user is in the member list of a group exactly when the group is
\* in the group list of that user's record, and every member of every group
\* has a user record.
C35_MembershipConsistent ==
    \A g \in DOMAIN groups :
        \A u \in Users :
            /\ u \in SeqToSet(groups[g].members) => u \in DOMAIN users
            /\ u \in SeqToSet(groups[g].members) <=>
                  (u \in DOMAIN users /\ g \in SeqToSet(users[u].groups))

\* this step completes a group creation
CreationCompleted ==
    /\ events' = events + 1
    /\ last'.f = "process_group_max"
    /\ \E i \in 1..Len(last'.sent) : last'.sent[i].kind = "group_created"

\* C36: a step that completes a group creation adds one group under an
\* identity no stored group has, and leaves every stored group as it was.
C36_CreationKeepsGroups ==
    [][CreationCompleted =>
          /\ \A g \in DOMAIN groups : g \in DOMAIN groups' /\ groups'[g] = groups[g]
          /\ Cardinality(DOMAIN groups') = Cardinality(DOMAIN groups) + 1]_vars

\* this step handles the start command of a user who has a user record
StartByRegistered ==
    /\ events' = events + 1
    /\ last'.kind = "command"
    /\ last'.x = "start"
    /\ last'.u \in DOMAIN users

\* C37: the start command of a user who has a user record, whatever the
\* record holds, leaves the user records as they were and opens no
\* registration session: the registration session of the sender in that chat
\* is after the step what it was before, and closed if the command was taken.
C37_StartKeepsRegistered ==
    [][StartByRegistered =>
          /\ users' = users
          /\ SessionAfter("registration", last') =
                 Session("registration", last'.u, last'.c)
          /\ last'.f = "start" => SessionAfter("registration", last') = END]_vars

\* an autistic member who cancelled the registration after the role button,
\* the profile unfilled, has sent the start command again
C37_UnfilledMemberWelcomedBack ==
    /\ last.f = "start"
    /\ last.sent = <<Msg(last.c, "welcome_back")>>
    /\ last.u \in DOMAIN users
    /\ users[last.u].role = ROLE_AUTISTA
    /\ users[last.u].profile = DefaultProfile
    /\ "name" \in DOMAIN user_data[last.u]
    /\ Session("registration", last.u, last.c) = END

\* C38: every user with an open private support session has a user record
\* with role 'autista'.
C38_SupportSessionsOfMembers ==
    \A u \in DOMAIN private_chat_sessions :
        u \in DOMAIN users /\ users[u].role = ROLE_AUTISTA
====
